---- MODULE Spec2Model ----
(***************************************************************************)
(* opfs-kit: a Node-fs-like path API (readFile, writeFile, exists, unlink, *)
(* mkdir, readdir) over the Origin Private File System.                    *)
(*                                                                         *)
(* A path string is modelled by the sequence of segments that              *)
(* path.split('/') yields: "/d/a" is <<"", "d", "a">>, "a" is <<"a">>,     *)
(* "/" is <<"", "">>.  A directory handle is modelled by the location it   *)
(* refers to (the sequence of names from the origin's root), a file        *)
(* handle by the location of the file.  Every await of a backend promise   *)
(* is a suspension point: the code between two awaits is one action.       *)
(***************************************************************************)
EXTENDS Naturals, Sequences, FiniteSets, TLC

\* ---------------------------------------------------------------- bounds
\* number of asynchronous calls that may be in flight together
MaxProcs == 2

Procs == 1 .. MaxProcs

\* longest path, in segments, whose resolution is examined
MaxPathLen == 4

\* number of getDirectory() requests the backend may reject
MaxRejects == 1

\* longest list of containers handed to Buffer.concat
MaxList == 2

\* ------------------------------------------------------------- universe
Names == {"a", "d"}
\* the texts the callers write, as sequences of Unicode scalar values: "é"
\* and "Aあ"
Contents == {<<233>>, <<65, 12354>>}

\* the path strings the callers use: "/a", "a", "/d", "/d/a", "/"
Paths ==
  { <<"", "a">>, <<"a">>, <<"", "d">>, <<"", "d", "a">>, <<"", "">> }

\* the paths the concurrent writers use: those with a leaf name
WritePaths == { q \in Paths : q[Len(q)] # "" }

\* the paths of two writers that share a parent directory: "/d/a", "/d/b"
SharePaths == { <<"", "d", "a">>, <<"", "d", "b">> }

\* every name an entry of the tree can have
EntryNames == Names \cup {"b"}

\* what split('/') can yield for a segment: a name or the empty string
Segments == Names \cup {""}

\* every path string of at most MaxPathLen segments
ResolvePaths == UNION { [1 .. n -> Segments] : n \in 1 .. MaxPathLen }

Ops == {"readFile", "writeFile", "exists", "unlink", "mkdir", "readdir"}

\* mkdir's options.recursive: absent, true or false
RecursiveOpts == {"absent", "true", "false"}

\* ------------------------------------------------------ trailing arguments
\* the two trailing arguments of a call, each by its typeof: nothing, a
\* function, a string (an encoding) or an options record, whose encoding
\* field is enc, "" when it has none
Absent == [k |-> "absent", enc |-> ""]
Fn == [k |-> "function", enc |-> ""]
Str(e) == [k |-> "string", enc |-> e]
Obj(e) == [k |-> "object", enc |-> e]

\* type FileEncoding
Encodings == {"utf8", "utf-8", "base64", "binary"}

\* op(path) and op(path, data)
NoArgs == {<<Absent, Absent>>}

\* the deferred form and the two positions a callback can take
ConvArgs == {<<Absent, Absent>>, <<Fn, Absent>>, <<Absent, Fn>>}

\* every shape of readFile's and writeFile's trailing arguments
ArgShapes ==
  ({Absent, Fn, Obj("")} \cup {Str(e) : e \in Encodings}
     \cup {Obj(e) : e \in Encodings}) \X {Absent, Fn}

\* ------------------------------------------------------------ environment
\* what the global object offers: a navigator, a storage manager on it, a
\* getDirectory on that; each is there only when what holds it is
Environments ==
  { g \in [navigator : BOOLEAN, storage : BOOLEAN, getDirectory : BOOLEAN] :
      (g.storage => g.navigator) /\ (g.getDirectory => g.storage) }

\* a probe that does not look for getDirectory
isOPFSSupportedNoMethod(g) == g.navigator /\ g.storage

\* 'navigator' in globalThis && 'storage' in navigator &&
\* 'getDirectory' in navigator.storage
isOPFSSupported(g) == g.navigator /\ g.storage /\ g.getDirectory

\* the repository holds two sources of Buffer: a subclass of Uint8Array
\* whose from() ignores the encoding and whose toString() hands it to
\* TextDecoder, and an object whose from() and toString() know base64
BufferModules == {"class", "object"}

\* ------------------------------------------------------------ variables
VARIABLES
  globalThis,     \* the environment the library runs in
  bufferModule,   \* the source './buffer' is bound to in this build, ""
                  \* until Buffer is first used
  supported,      \* what isOPFSSupported() answers in this environment
  rootDirectory,  \* module variable of fs-utils.ts: 0 is null, n > 0 is the
                  \* handle object the n-th getDirectory() request returned
  getDirCalls,    \* number of navigator.storage.getDirectory() requests issued
  tree,           \* the origin private file system: [dirs, files]
  lastClose,      \* per file, the call whose writable stream closed last
  procs,          \* the calls: one record per asynchronous call
  heap,           \* the ArrayBuffers a user of Buffer holds: heap[i] is the
                  \* bytes of the i-th, and i is its identity
  regs            \* what that user holds: its source, its container and
                  \* what its last call of the Buffer API gave

vars ==
  <<globalThis, bufferModule, supported, rootDirectory, getDirCalls, tree, lastClose,
    procs, heap, regs>>

\* ------------------------------------------------- text and file content
\* a file's content is a sequence of bytes; the backend converts a string
\* it is given to UTF-8 and file.text() decodes UTF-8
Utf8Bytes(c) ==
  IF c < 128 THEN <<c>>
  ELSE IF c < 2048 THEN <<192 + (c \div 64), 128 + (c % 64)>>
  ELSE IF c < 65536
    THEN <<224 + (c \div 4096), 128 + ((c \div 64) % 64), 128 + (c % 64)>>
  ELSE <<240 + (c \div 262144), 128 + ((c \div 4096) % 64),
         128 + ((c \div 64) % 64), 128 + (c % 64)>>

RECURSIVE Utf8Encode(_)
Utf8Encode(s) ==
  IF s = <<>> THEN <<>> ELSE Utf8Bytes(Head(s)) \o Utf8Encode(Tail(s))

\* the byte at index i continues a multi-byte sequence
IsCont(b, i) == i <= Len(b) /\ b[i] >= 128 /\ b[i] < 192

\* a byte that starts no well-formed sequence decodes to U+FFFD
RECURSIVE Utf8Decode(_)
Utf8Decode(b) ==
  IF b = <<>> THEN <<>>
  ELSE IF b[1] < 128 THEN <<b[1]>> \o Utf8Decode(Tail(b))
  ELSE IF b[1] >= 194 /\ b[1] < 224 /\ IsCont(b, 2)
    THEN <<((b[1] - 192) * 64) + (b[2] - 128)>> \o Utf8Decode(SubSeq(b, 3, Len(b)))
  ELSE IF b[1] >= 224 /\ b[1] < 240 /\ IsCont(b, 2) /\ IsCont(b, 3)
    THEN <<((b[1] - 224) * 4096) + ((b[2] - 128) * 64) + (b[3] - 128)>>
           \o Utf8Decode(SubSeq(b, 4, Len(b)))
  ELSE IF b[1] >= 240 /\ b[1] < 245 /\ IsCont(b, 2) /\ IsCont(b, 3) /\ IsCont(b, 4)
    THEN <<((b[1] - 240) * 262144) + ((b[2] - 128) * 4096)
             + ((b[3] - 128) * 64) + (b[4] - 128)>> \o Utf8Decode(SubSeq(b, 5, Len(b)))
  ELSE <<65533>> \o Utf8Decode(Tail(b))

\* a decoder that keeps a leading byte order mark
TextDecodeKeepBOM(b) == Utf8Decode(b)

\* "UTF-8 decode", what file.text() and new TextDecoder().decode() do: the
\* byte order mark EF BB BF at the start of the bytes is dropped, the rest
\* is decoded
TextDecode(b) ==
  IF Len(b) >= 3 /\ SubSeq(b, 1, 3) = <<239, 187, 191>>
    THEN Utf8Decode(SubSeq(b, 4, Len(b)))
    ELSE Utf8Decode(b)

\* the Base64 alphabet: A-Z, a-z, 0-9, '+' and '/'; '=' (61) pads
B64Char(v) ==
  IF v < 26 THEN 65 + v
  ELSE IF v < 52 THEN 71 + v
  ELSE IF v < 62 THEN v - 4
  ELSE IF v = 62 THEN 43 ELSE 47

\* the value of a character of the alphabet, -1 for any other character
B64Value(c) ==
  IF c >= 65 /\ c <= 90 THEN c - 65
  ELSE IF c >= 97 /\ c <= 122 THEN c - 71
  ELSE IF c >= 48 /\ c <= 57 THEN c + 4
  ELSE IF c = 43 THEN 62
  ELSE IF c = 47 THEN 63 ELSE 0 - 1

\* btoa(String.fromCharCode(...bytes)): three bytes give four characters,
\* the last group is padded
RECURSIVE Btoa(_)
Btoa(b) ==
  IF b = <<>> THEN <<>>
  ELSE IF Len(b) = 1
    THEN <<B64Char(b[1] \div 4), B64Char((b[1] % 4) * 16), 61, 61>>
  ELSE IF Len(b) = 2
    THEN <<B64Char(b[1] \div 4), B64Char(((b[1] % 4) * 16) + (b[2] \div 16)),
           B64Char((b[2] % 16) * 4), 61>>
  ELSE <<B64Char(b[1] \div 4), B64Char(((b[1] % 4) * 16) + (b[2] \div 16)),
         B64Char(((b[2] % 16) * 4) + (b[3] \div 64)), B64Char(b[3] % 64)>>
         \o Btoa(SubSeq(b, 4, Len(b)))

\* the bytes of a sequence of six-bit values; the bits left over after the
\* last whole byte are dropped
RECURSIVE SextetBytes(_)
SextetBytes(v) ==
  IF Len(v) < 2 THEN <<>>
  ELSE IF Len(v) = 2 THEN <<(v[1] * 4) + (v[2] \div 16)>>
  ELSE IF Len(v) = 3
    THEN <<(v[1] * 4) + (v[2] \div 16), ((v[2] % 16) * 16) + (v[3] \div 4)>>
  ELSE <<(v[1] * 4) + (v[2] \div 16), ((v[2] % 16) * 16) + (v[3] \div 4),
         ((v[3] % 4) * 64) + v[4]>> \o SextetBytes(SubSeq(v, 5, Len(v)))

\* atob(text), the forgiving-base64 decode: ASCII whitespace is removed,
\* one or two '=' ending a text whose length is a multiple of four are
\* removed, and a length of 4n + 1 or a character outside the alphabet
\* throws
Atob(s) ==
  LET t == SelectSeq(s, LAMBDA c : c \notin {9, 10, 12, 13, 32})
      n == Len(t)
      u == IF n > 0 /\ n % 4 = 0 /\ t[n] = 61
             THEN IF t[n - 1] = 61 THEN SubSeq(t, 1, n - 2) ELSE SubSeq(t, 1, n - 1)
             ELSE t
  IN IF Len(u) % 4 = 1 \/ \E i \in 1 .. Len(u) : B64Value(u[i]) < 0
       THEN [err |-> "InvalidCharacterError", bytes |-> <<>>]
       ELSE [err |-> "", bytes |-> SextetBytes([i \in 1 .. Len(u) |-> B64Value(u[i])])]

\* a Buffer.from that encodes every string as UTF-8
BufferFromUtf8(module, data, encoding) == [err |-> "", bytes |-> Utf8Encode(data)]

\* Buffer.from(data, encoding) of a string: the class encodes the string
\* as UTF-8 whatever the encoding, the object decodes a base64 string
BufferFrom(module, data, encoding) ==
  IF module = "object" /\ encoding = "base64" THEN Atob(data)
  ELSE [err |-> "", bytes |-> Utf8Encode(data)]

\* a toString that decodes UTF-8 whatever the encoding
BufferToStringUtf8(module, bytes, encoding) == [err |-> "", text |-> TextDecode(bytes)]

\* the labels of UTF-8 among the encoding names the callers pass
Utf8Labels == {"utf8", "utf-8"}

\* toString(encoding), "" for no encoding: the class builds
\* new TextDecoder(encoding || 'utf-8'), which throws a RangeError for a
\* label that names no encoding; the object encodes base64 itself and
\* decodes UTF-8 for anything else
BufferToString(module, bytes, encoding) ==
  IF module = "object"
    THEN IF encoding = "base64" THEN [err |-> "", text |-> Btoa(bytes)]
         ELSE [err |-> "", text |-> TextDecode(bytes)]
    ELSE IF encoding \in Utf8Labels \cup {""}
      THEN [err |-> "", text |-> TextDecode(bytes)]
      ELSE [err |-> "RangeError", text |-> <<>>]

\* a stream that starts from the file's present content
SwapBufferKeep(t, fh) == t.files[fh]

\* createWritable() without keepExistingData: the stream's buffer is empty
SwapBuffer(t, fh) == <<>>

\* write(data) at the stream's position, which is 0: the bytes replace
\* the head of the buffer and what lies beyond them stays
Overwrite(buf, bytes) == bytes \o SubSeq(buf, Len(bytes) + 1, Len(buf))

\* ------------------------------------------------------ the backend tree
Root == <<>>

EmptyTree == [dirs |-> {Root}, files |-> <<>>]

IsDir(t, loc) == loc \in t.dirs
IsFile(t, loc) == loc \in DOMAIN t.files

\* the names of every descendant of a directory
ChildrenDeep(t, loc) ==
  { l[Len(l)] : l \in { e \in t.dirs \cup DOMAIN t.files :
                          Len(e) > Len(loc) /\ SubSeq(e, 1, Len(loc)) = loc } }

\* names of the immediate children of a directory
Children(t, loc) ==
  { n \in EntryNames : IsDir(t, Append(loc, n)) \/ IsFile(t, Append(loc, n)) }

\* a valid file-system name: not empty (and no '/', which split removed)
ValidName(n) == n # ""

AddFile(t, loc, c) ==
  [t EXCEPT !.files = [l \in DOMAIN t.files \cup {loc} |->
                         IF l = loc THEN c ELSE t.files[l]]]

DropFile(t, loc) ==
  [t EXCEPT !.files = [l \in DOMAIN t.files \ {loc} |-> t.files[l]]]

\* a getDirectoryHandle whose create refuses a directory that exists
GetDirectoryHandleExclusive(t, cur, name, create) ==
  LET loc == Append(cur, name) IN
  IF ~ValidName(name) THEN [err |-> "TypeError", loc |-> cur, tree |-> t]
  ELSE IF ~IsDir(t, cur) THEN [err |-> "NotFoundError", loc |-> cur, tree |-> t]
  ELSE IF IsFile(t, loc) THEN [err |-> "TypeMismatchError", loc |-> cur, tree |-> t]
  ELSE IF create
    THEN IF IsDir(t, loc)
           THEN [err |-> "InvalidModificationError", loc |-> cur, tree |-> t]
           ELSE [err |-> "", loc |-> loc, tree |-> [t EXCEPT !.dirs = @ \cup {loc}]]
  ELSE IF IsDir(t, loc) THEN [err |-> "", loc |-> loc, tree |-> t]
  ELSE [err |-> "NotFoundError", loc |-> cur, tree |-> t]

\* a getDirectoryHandle whose create puts an empty directory in the place
\* of a directory that exists
GetDirectoryHandleReplace(t, cur, name, create) ==
  LET loc == Append(cur, name)
      Under(e) == Len(e) > Len(loc) /\ SubSeq(e, 1, Len(loc)) = loc
  IN IF ~ValidName(name) THEN [err |-> "TypeError", loc |-> cur, tree |-> t]
     ELSE IF ~IsDir(t, cur) THEN [err |-> "NotFoundError", loc |-> cur, tree |-> t]
     ELSE IF IsFile(t, loc) THEN [err |-> "TypeMismatchError", loc |-> cur, tree |-> t]
     ELSE IF create
       THEN [err |-> "", loc |-> loc,
             tree |-> [dirs |-> {e \in t.dirs : ~Under(e)} \cup {loc},
                       files |-> [l \in {e \in DOMAIN t.files : ~Under(e)}
                                    |-> t.files[l]]]]
     ELSE IF IsDir(t, loc) THEN [err |-> "", loc |-> loc, tree |-> t]
     ELSE [err |-> "NotFoundError", loc |-> cur, tree |-> t]

\* FileSystemDirectoryHandle.getDirectoryHandle(name, {create})
GetDirectoryHandle(t, cur, name, create) ==
  LET loc == Append(cur, name) IN
  IF ~ValidName(name) THEN [err |-> "TypeError", loc |-> cur, tree |-> t]
  ELSE IF ~IsDir(t, cur) THEN [err |-> "NotFoundError", loc |-> cur, tree |-> t]
  ELSE IF IsDir(t, loc) THEN [err |-> "", loc |-> loc, tree |-> t]
  ELSE IF IsFile(t, loc) THEN [err |-> "TypeMismatchError", loc |-> cur, tree |-> t]
  ELSE IF create
    THEN [err |-> "", loc |-> loc, tree |-> [t EXCEPT !.dirs = @ \cup {loc}]]
  ELSE [err |-> "NotFoundError", loc |-> cur, tree |-> t]

\* FileSystemDirectoryHandle.getFileHandle(name, {create})
GetFileHandle(t, cur, name, create) ==
  LET loc == Append(cur, name) IN
  IF ~ValidName(name) THEN [err |-> "TypeError", loc |-> cur, tree |-> t]
  ELSE IF ~IsDir(t, cur) THEN [err |-> "NotFoundError", loc |-> cur, tree |-> t]
  ELSE IF IsFile(t, loc) THEN [err |-> "", loc |-> loc, tree |-> t]
  ELSE IF IsDir(t, loc) THEN [err |-> "TypeMismatchError", loc |-> cur, tree |-> t]
  ELSE IF create
    THEN [err |-> "", loc |-> loc, tree |-> AddFile(t, loc, <<>>)]
  ELSE [err |-> "NotFoundError", loc |-> cur, tree |-> t]

\* a removeEntry that reports success and removes nothing
RemoveEntryKeep(t, cur, name, locked) == [err |-> "", tree |-> t]

\* FileSystemDirectoryHandle.removeEntry(name), not recursive; locked tells
\* whether a writable stream is open on the entry
RemoveEntry(t, cur, name, locked) ==
  LET loc == Append(cur, name) IN
  IF ~ValidName(name) THEN [err |-> "TypeError", tree |-> t]
  ELSE IF ~IsDir(t, cur) THEN [err |-> "NotFoundError", tree |-> t]
  ELSE IF IsFile(t, loc)
    THEN IF locked THEN [err |-> "NoModificationAllowedError", tree |-> t]
         ELSE [err |-> "", tree |-> DropFile(t, loc)]
  ELSE IF IsDir(t, loc)
    THEN IF Children(t, loc) # {}
           THEN [err |-> "InvalidModificationError", tree |-> t]
         ELSE [err |-> "", tree |-> [t EXCEPT !.dirs = @ \ {loc}]]
  ELSE [err |-> "NotFoundError", tree |-> t]

\* ------------------------------------------------------ path arithmetic
\* a split that keeps the empty segments
FilterNothing(s) == s

\* parts.filter((part) => part.length > 0)
RECURSIVE FilterNonEmpty(_)
FilterNonEmpty(s) ==
  IF s = <<>> THEN <<>>
  ELSE IF Head(s) = "" THEN FilterNonEmpty(Tail(s))
  ELSE <<Head(s)>> \o FilterNonEmpty(Tail(s))

Front(s) == SubSeq(s, 1, Len(s) - 1)

\* const fileName = parts.pop() || ''
FileNameOf(path) == path[Len(path)]

\* parts.join('/') is the empty string exactly when no segment is left or
\* the single segment left is empty
JoinIsEmpty(parts) == parts = <<>> \/ parts = <<"">>

\* the directory names getDirectoryAndFileName walks for a path: none when
\* directoryPath is empty, else the non-empty segments before the leaf
ParentParts(path) ==
  IF JoinIsEmpty(Front(path)) THEN <<>> ELSE FilterNonEmpty(Front(path))

\* the directory names getDirectoryByPath walks for a path
DirParts(path) == FilterNonEmpty(path)

\* the location of the leaf a file operation addresses
TargetLoc(path) == ParentParts(path) \o <<FileNameOf(path)>>

\* the location of the directory mkdir and readdir address
DirLoc(path) == DirParts(path)

\* the loop of getDirectoryByPath run to its end on a tree nothing else
\* touches
RECURSIVE WalkAll(_, _, _, _)
WalkAll(t, cur, parts, create) ==
  IF parts = <<>> THEN [err |-> "", loc |-> cur, tree |-> t]
  ELSE LET g == GetDirectoryHandle(t, cur, Head(parts), create)
       IN IF g.err # "" THEN g ELSE WalkAll(g.tree, g.loc, Tail(parts), create)

\* what readFile(path, 'utf8') yields on a tree nothing else touches
ReadBack(t, path) ==
  LET w == WalkAll(t, Root, ParentParts(path), TRUE)
      g == GetFileHandle(w.tree, w.loc, FileNameOf(path), FALSE)
  IN IF w.err # "" \/ g.err # "" THEN [ok |-> FALSE, text |-> <<>>]
     ELSE [ok |-> TRUE, text |-> TextDecode(w.tree.files[g.loc])]

\* what exists(path) yields on a tree nothing else touches
ExistsNow(t, path) == ReadBack(t, path).ok

\* the loop of getDirectoryByPath run to its end, with the requests it
\* issues
RECURSIVE WalkLog(_, _, _, _)
WalkLog(t, cur, parts, create) ==
  IF parts = <<>> THEN [err |-> "", loc |-> cur, tree |-> t, calls |-> <<>>]
  ELSE LET g == GetDirectoryHandle(t, cur, Head(parts), create)
           c == <<"getDirectoryHandle", Head(parts), create>>
       IN IF g.err # ""
            THEN [err |-> g.err, loc |-> cur, tree |-> g.tree, calls |-> <<c>>]
            ELSE LET w == WalkLog(g.tree, g.loc, Tail(parts), create)
                 IN [w EXCEPT !.calls = <<c>> \o @]

\* ------------------------------------------------------------- messages
UnsupportedMsg == "OPFS is not supported in this browser"

Prefix(op) ==
  CASE op = "readFile" -> "Error reading file: "
    [] op = "writeFile" -> "Error writing file: "
    [] op = "unlink" -> "Error deleting file: "
    [] op = "mkdir" -> "Error creating directory: "
    [] op = "readdir" -> "Error reading directory: "
    [] OTHER -> ""

\* ---------------------------------------------------------------- calls
\* the operations that resolve through getDirectoryAndFileName
FileOps == {"readFile", "writeFile", "exists", "unlink"}

\* what a caller remembers of the call it made before the current one
NoCall ==
  [op |-> "", path |-> <<>>, data |-> <<>>, dtype |-> "string", enc |-> "utf8",
   ok |-> "none"]

IdleProc ==
  [pc |-> "idle", op |-> "", path |-> <<>>, data |-> <<>>, dtype |-> "string",
   key |-> "", recursive |-> "absent",
   a1 |-> Absent, a2 |-> Absent, enc |-> "utf8", cb |-> FALSE, ret |-> "none",
   got |-> <<>>, stream |-> "none", cause |-> "", keep |-> "none", calls |-> <<>>, preRoot |-> 0,
   create |-> FALSE, rem |-> <<>>, cur |-> Root, fh |-> Root, from |-> 0,
   tok |-> 0, buf |-> <<>>, ok |-> "none", msg |-> "", text |-> <<>>, flag |-> FALSE,
   names |-> {}, pre |-> EmptyTree, prev |-> NoCall,
   invs |-> <<>>, threw |-> FALSE]

\* a user of Buffer that holds nothing yet: op is its last call, kind the
\* type of the source it made a container from, arg and enc the arguments
\* of from, src the source's ArrayBuffer (0 for none), vals the elements of
\* a source that is an Array, buf the container's ArrayBuffer, list the
\* containers it concatenated, err and text what the call threw or
\* returned, tenc the encoding it passed to toString, was and ins what the
\* other objects held before the call
NoRegs ==
  [op |-> "", kind |-> "", arg |-> <<>>, enc |-> "", src |-> 0, vals |-> <<>>,
   buf |-> 0, list |-> <<>>, err |-> "", text |-> <<>>, tenc |-> "",
   was |-> <<>>, ins |-> <<>>]

Init ==
  /\ globalThis \in Environments
  /\ bufferModule = ""
  /\ supported = isOPFSSupported(globalThis)
  /\ rootDirectory = 0
  /\ getDirCalls = 0
  /\ tree = EmptyTree
  /\ lastClose = <<>>
  /\ procs = [p \in Procs |-> IdleProc]
  /\ heap = <<>>
  /\ regs = NoRegs

\* the outcome of an operation that failed with the given cause: exists
\* maps every failure to false, the others reject with the wrapped message
\* the locals of the asynchronous function end with it
Settled(r) ==
  [r EXCEPT !.pc = "settled", !.create = FALSE, !.rem = <<>>, !.cur = Root,
            !.fh = Root, !.from = 0, !.tok = 0, !.buf = <<>>]

\* a catch that rethrows the cause as it came
FailUnwrapped(r, cause) ==
  [Settled(r) EXCEPT !.ok = "no", !.msg = cause,
                     !.cause = IF r.keep # "none" THEN cause ELSE ""]

\* an exists that lets the failure through like the other operations
FailThrough(r, cause) ==
  [Settled(r) EXCEPT !.ok = "no", !.msg = Prefix(r.op) \o cause,
                     !.cause = IF r.keep # "none" THEN cause ELSE ""]

Fail(r, cause) ==
  IF r.op = "exists"
    THEN [Settled(r) EXCEPT !.ok = "yes", !.flag = FALSE,
                            !.cause = IF r.keep # "none" THEN cause ELSE ""]
    ELSE [Settled(r) EXCEPT !.ok = "no", !.msg = Prefix(r.op) \o cause,
                            !.cause = IF r.keep # "none" THEN cause ELSE ""]

\* a sequential caller's record of the backend requests its call issued:
\* the method, its name argument and its create option
Log(r, method, name, create) ==
  IF r.keep # "none" THEN [r EXCEPT !.calls = Append(@, <<method, name, create>>)] ELSE r

\* a normalization that takes the callback from the last position only
NormalizeArgsLast(op, a1, a2) ==
  [encoding |-> "utf8", cb |-> a2.k = "function"]

\* the normalization of the trailing arguments: a function first is the
\* callback; readFile and writeFile take a string first as the encoding and
\* an options record's truthy encoding field, the callback then second;
\* exists and unlink have the callback as their only trailing argument
NormalizeArgs(op, a1, a2) ==
  IF a1.k = "function" THEN [encoding |-> "utf8", cb |-> TRUE]
  ELSE IF op \in {"exists", "unlink"} THEN [encoding |-> "utf8", cb |-> FALSE]
  ELSE IF op \in {"readFile", "writeFile"} /\ a1.k = "string"
    THEN [encoding |-> a1.enc, cb |-> a2.k = "function"]
  ELSE IF op \in {"readFile", "writeFile"} /\ a1.k = "object"
    THEN [encoding |-> IF a1.enc # "" THEN a1.enc ELSE "utf8",
          cb |-> a2.k = "function"]
  ELSE [encoding |-> "utf8", cb |-> a2.k = "function"]

\* a callback form that hands the deferred result back all the same
ReturnFormDeferred(cb) == "promise"

\* what the call returns: nothing when a callback was given, else the
\* deferred result
ReturnForm(cb) == IF cb THEN "undefined" ELSE "promise"

Succeed(r) == [Settled(r) EXCEPT !.ok = "yes"]

\* a root check that never sees the memoized handle
RootUnsetAlways(root) == TRUE

\* if (!rootDirectory)
RootUnset(root) == root = 0

\* an initialize() without the capability check
InitializeNoProbe(sup, root) == IF RootUnset(root) THEN "request" ELSE "skip"

\* an initialize() that requests the backend's root one time only and never
\* again after a request that failed
InitializeOutcomeOnce(sup, root) ==
  IF ~sup THEN "throw"
  ELSE IF RootUnset(root) /\ getDirCalls = 0 THEN "request" ELSE "skip"

\* initialize(): throws when the probe fails, requests the backend's root
\* when rootDirectory is still null, else does nothing
InitializeOutcome(sup, root) ==
  IF ~sup THEN "throw" ELSE IF RootUnset(root) THEN "request" ELSE "skip"

\* a walk that creates for every operation
CreateFlagAlways(op) == TRUE

\* a resolver whose file operations leave create at its default, false
CreateFlagDefault(op) == op = "mkdir"

\* the create flag of the directory walk: getDirectoryAndFileName always
\* passes true, mkdir passes true, readdir takes the default false
CreateFlag(op) == op # "readdir"

\* what follows the resolution of the directory
AfterResolve(r) ==
  IF r.op \in FileOps THEN [r EXCEPT !.pc = "leaf"]
  ELSE IF r.op = "mkdir" THEN Succeed(r)
  ELSE [r EXCEPT !.pc = "list"]

\* the synchronous part from the root check to the first getDirectoryHandle
BeginWalk(r, root) ==
  LET parts == IF r.op \in FileOps THEN ParentParts(r.path) ELSE DirParts(r.path)
      w == [r EXCEPT !.from = root, !.cur = Root, !.rem = parts,
                     !.create = CreateFlag(r.op)]
  IN IF parts = <<>> THEN AfterResolve(w) ELSE [w EXCEPT !.pc = "walk"]

\* a writable stream is open on the file at loc
Locked(loc) ==
  \E q \in Procs : procs[q].pc \in {"write", "close"} /\ procs[q].fh = loc

Set(p, r) == procs' = [procs EXCEPT ![p] = r]

\* a public operation is called: the code up to its first await
\* keep tells what a sequential caller keeps for its bookkeeping: "none",
\* "call" (the tree the call started on, the backend requests it issued and
\* the cause of its failure) or "prev" (its previous call as well)
\* for mkdir the options record is what recursive tells, and there is none
\* when the callback comes first
\* data is a string, or a Uint8Array when dtype says so
CallWith(p, op, path, a, data, dtype, rec, keep) ==
    LET n == NormalizeArgs(op, a[1], a[2])
        r == [IdleProc EXCEPT !.op = op, !.path = path, !.data = data,
                              !.dtype = dtype, !.recursive = rec, !.a1 = a[1], !.a2 = a[2],
                              !.enc = n.encoding, !.cb = n.cb,
                              !.ret = ReturnForm(n.cb), !.keep = keep,
                              !.pre = IF keep # "none" THEN tree ELSE EmptyTree,
                              !.preRoot = IF keep # "none" THEN rootDirectory ELSE 0,
                              !.prev = IF keep = "prev"
                                         THEN [op |-> procs[p].op,
                                               path |-> procs[p].path,
                                               data |-> procs[p].data,
                                               dtype |-> procs[p].dtype,
                                               enc |-> procs[p].enc,
                                               ok |-> procs[p].ok]
                                         ELSE NoCall]
    IN IF RootUnset(rootDirectory)
         THEN CASE InitializeOutcome(supported, rootDirectory) = "throw" ->
                     /\ Set(p, Fail(r, UnsupportedMsg))
                     /\ UNCHANGED <<heap, regs, globalThis, bufferModule, supported, rootDirectory, getDirCalls, tree, lastClose>>
                [] InitializeOutcome(supported, rootDirectory) = "request" ->
                     /\ getDirCalls' = getDirCalls + 1
                     /\ Set(p, [Log(r, "getDirectory", "", FALSE)
                                  EXCEPT !.pc = "init", !.tok = getDirCalls + 1])
                     /\ UNCHANGED <<heap, regs, globalThis, bufferModule, supported, rootDirectory, tree, lastClose>>
                [] OTHER ->
                     /\ Set(p, [r EXCEPT !.pc = "initDone"])
                     /\ UNCHANGED <<heap, regs, globalThis, bufferModule, supported, rootDirectory, getDirCalls, tree, lastClose>>
         ELSE /\ Set(p, BeginWalk(r, rootDirectory))
              /\ UNCHANGED <<heap, regs, globalThis, bufferModule, supported, rootDirectory, getDirCalls, tree, lastClose>>

\* a call that passes a string for the data of a writeFile
CallBody(p, ops, paths, keep, args) ==
  \E op \in ops, path \in paths, a \in args :
  \E data \in (IF op = "writeFile" THEN Contents ELSE {<<>>}),
     rec \in (IF op = "mkdir" /\ a[1].k # "function"
                THEN RecursiveOpts ELSE {"absent"}) :
    CallWith(p, op, path, a, data, "string", rec, keep)

\* the callers are numbered in the order of their calls
Fresh(p) ==
  /\ procs[p].pc = "idle"
  /\ IF p = 1 THEN TRUE ELSE procs[p - 1].pc # "idle"

\* a call, by a caller that has made none yet
Call(p) == Fresh(p) /\ CallBody(p, Ops, Paths, "none", NoArgs)

\* a sequential caller: it calls once its previous call has been delivered
CallSeq(p) == procs[p].pc \in {"idle", "done"} /\ CallBody(p, Ops, Paths, "prev", NoArgs)

\* a caller of Promise.all(files.map((file, i) => writeFile(file, ...)))
CallWrite(p) == Fresh(p) /\ CallBody(p, {"writeFile"}, WritePaths, "none", NoArgs)

\* a caller of Promise.all([writeFile('/d/a', x), writeFile('/d/b', y)])
CallShare(p) == Fresh(p) /\ CallBody(p, {"writeFile"}, SharePaths, "none", NoArgs)

\* one call of an operation that resolves a parent and a leaf, on any path
CallResolve(p) == Fresh(p) /\ CallBody(p, FileOps, ResolvePaths, "none", NoArgs)

\* a sequential caller that keeps no more than its current call
CallOne(p) ==
  procs[p].pc \in {"idle", "done"} /\ CallBody(p, Ops, Paths, "call", NoArgs)

\* a sequential caller that uses the deferred and the callback form
CallConv(p) ==
  procs[p].pc \in {"idle", "done"} /\ CallBody(p, Ops, Paths, "call", ConvArgs)

\* one readFile or writeFile call with any shape of trailing arguments
CallArgs(p) ==
  Fresh(p) /\ CallBody(p, {"readFile", "writeFile"}, Paths, "none", ArgShapes)

\* the data of the writes that try the encodings: the strings "QQ==",
\* "/wCA", "\u00e9" and "\ufeffA", and the byte arrays [65] and
\* [255, 0, 128]
EncData ==
  ({"string"} \X {<<81, 81, 61, 61>>, <<47, 119, 67, 65>>, <<233>>, <<65279, 65>>})
    \cup ({"Uint8Array"} \X {<<65>>, <<255, 0, 128>>})

\* no encoding, each FileEncoding, and a string that is none of them
EncArgs ==
  {<<Absent, Absent>>} \cup {<<Str(e), Absent>> : e \in Encodings \cup {"hex"}}

\* a sequential caller that writes and reads the file "/a" with any data
\* and any encoding
CallEnc(p) ==
  /\ procs[p].pc \in {"idle", "done"}
  /\ \E op \in {"readFile", "writeFile"}, a \in EncArgs :
     \E d \in (IF op = "writeFile" THEN EncData ELSE {<<"string", <<>>>>}) :
       CallWith(p, op, <<"", "a">>, a, d[2], d[1], "absent", "prev")

\* the synchronous variants
SyncOps == {"readFileSync", "writeFileSync", "existsSync"}

\* a message that does not tell what to use instead
SyncMessageBare(op) == op \o " is not supported in browser environment."

\* the message of the error a synchronous variant throws
SyncMessage(op) ==
  CASE op = "readFileSync" ->
         "readFileSync is not supported in browser environment. Use readFile() instead."
    [] op = "writeFileSync" ->
         "writeFileSync is not supported in browser environment. Use writeFile() instead."
    [] OTHER ->
         "existsSync is not supported in browser environment. Use exists() instead."

\* what a caller that is not inside a call keeps of the state it calls in
Plain(p, op) ==
  [IdleProc EXCEPT !.pc = "done", !.op = op, !.keep = "call",
                   !.pre = tree, !.preRoot = rootDirectory]

\* readFileSync, writeFileSync or existsSync is called: the body is a throw
CallSync(p) ==
  /\ procs[p].pc \in {"idle", "done"}
  /\ \E op \in SyncOps, path \in Paths :
     \E data \in (IF op = "writeFileSync" THEN Contents ELSE {<<>>}) :
       Set(p, [Plain(p, op) EXCEPT !.path = path, !.data = data, !.ret = "throw",
                                   !.ok = "no", !.msg = SyncMessage(op)])
  /\ UNCHANGED <<heap, regs, globalThis, bufferModule, supported, rootDirectory, getDirCalls, tree, lastClose>>

\* a probe that memoizes the root handle it finds
CallProbeEager(p) ==
  /\ procs[p].pc \in {"idle", "done"}
  /\ rootDirectory' = IF isOPFSSupported(globalThis) /\ rootDirectory = 0
                        THEN getDirCalls + 1 ELSE rootDirectory
  /\ getDirCalls' = IF rootDirectory' # rootDirectory THEN getDirCalls + 1
                    ELSE getDirCalls
  /\ Set(p, [Plain(p, "isOPFSSupported")
               EXCEPT !.ret = "value", !.ok = "yes",
                      !.flag = isOPFSSupported(globalThis)])
  /\ UNCHANGED <<heap, regs, globalThis, bufferModule, supported, tree, lastClose>>

\* isOPFSSupported() is called
CallProbe(p) ==
  /\ procs[p].pc \in {"idle", "done"}
  /\ Set(p, [Plain(p, "isOPFSSupported")
               EXCEPT !.ret = "value", !.ok = "yes",
                      !.flag = isOPFSSupported(globalThis)])
  /\ UNCHANGED <<heap, regs, globalThis, bufferModule, supported, rootDirectory, getDirCalls, tree, lastClose>>

\* export const constants
constants == [F_OK |-> 0, R_OK |-> 4, W_OK |-> 2, X_OK |-> 1]

\* the names a caller looks up in the table
ConstantNames ==
  {"F_OK", "R_OK", "W_OK", "X_OK", "O_RDONLY", "O_WRONLY", "O_RDWR", "O_CREAT",
   "O_EXCL", "O_TRUNC", "O_APPEND"}

\* constants[key] is read
ReadConstant(p) ==
  /\ procs[p].pc \in {"idle", "done"}
  /\ \E key \in ConstantNames :
       Set(p, [Plain(p, "constants") EXCEPT !.key = key, !.ret = "value", !.ok = "yes"])
  /\ UNCHANGED <<heap, regs, globalThis, bufferModule, supported, rootDirectory, getDirCalls, tree, lastClose>>

\* rootDirectory = await navigator.storage.getDirectory() resumes
InitResume(p) ==
  /\ procs[p].pc = "init"
  /\ rootDirectory' = procs[p].tok
  /\ Set(p, [procs[p] EXCEPT !.pc = "initDone", !.tok = 0])
  /\ UNCHANGED <<heap, regs, globalThis, bufferModule, supported, getDirCalls, tree, lastClose>>

\* await initialize() resumes in the resolver: the second root check
ResumeResolve(p) ==
  /\ procs[p].pc = "initDone"
  /\ IF RootUnset(rootDirectory)
       THEN Set(p, Fail(procs[p], "Failed to initialize OPFS root directory"))
       ELSE Set(p, BeginWalk(procs[p], rootDirectory))
  /\ UNCHANGED <<heap, regs, globalThis, bufferModule, supported, rootDirectory, getDirCalls, tree, lastClose>>

\* a resolver that creates only the last segment unless recursive was asked
StepCreateIfRecursive(r) ==
  r.create /\ (r.op = "mkdir" /\ r.recursive # "true" => Len(r.rem) = 1)

\* the options of each getDirectoryHandle of the walk: { create }
StepCreate(r) == r.create

\* one turn of the loop of getDirectoryByPath
WalkStep(p) ==
  /\ procs[p].pc = "walk"
  /\ LET r == Log(procs[p], "getDirectoryHandle", Head(procs[p].rem),
                  StepCreate(procs[p]))
         g == GetDirectoryHandle(tree, r.cur, Head(r.rem), StepCreate(r))
         w == [r EXCEPT !.cur = g.loc, !.rem = Tail(r.rem), !.from = 0]
     IN /\ tree' = g.tree
        /\ IF g.err # "" THEN Set(p, Fail(r, g.err))
           ELSE IF w.rem = <<>> THEN Set(p, AfterResolve(w))
           ELSE Set(p, w)
  /\ UNCHANGED <<heap, regs, globalThis, bufferModule, supported, rootDirectory, getDirCalls, lastClose>>

\* a leaf lookup that always passes { create: true }
LeafCreateAlways(op) == TRUE

\* the options of the leaf's getFileHandle: writeFile alone passes
\* { create: true }
LeafCreate(op) == op = "writeFile"

\* the lookup of the leaf: getFileHandle, or removeEntry for unlink
LeafStep(p) ==
  /\ procs[p].pc = "leaf"
  /\ LET name == FileNameOf(procs[p].path)
         r == IF procs[p].op = "unlink"
                THEN Log(procs[p], "removeEntry", name, FALSE)
                ELSE Log(procs[p], "getFileHandle", name, LeafCreate(procs[p].op))
     IN IF r.op = "unlink"
          THEN LET d == RemoveEntry(tree, r.cur, name, Locked(Append(r.cur, name)))
               IN /\ tree' = d.tree
                  /\ Set(p, IF d.err # "" THEN Fail(r, d.err) ELSE Succeed(r))
          ELSE LET g == GetFileHandle(tree, r.cur, name, LeafCreate(r.op))
                   w == [r EXCEPT !.fh = g.loc, !.from = 0]
               IN /\ tree' = g.tree
                  /\ IF g.err # "" THEN Set(p, Fail(r, g.err))
                     ELSE IF r.op = "exists"
                       THEN Set(p, [Succeed(r) EXCEPT !.flag = TRUE])
                     ELSE IF r.op = "writeFile" THEN Set(p, [w EXCEPT !.pc = "open"])
                     ELSE Set(p, [w EXCEPT !.pc = "getFile"])
  /\ UNCHANGED <<heap, regs, globalThis, bufferModule, supported, rootDirectory, getDirCalls, lastClose>>

\* fileHandle.createWritable(): an empty swap buffer
OpenStep(p) ==
  /\ procs[p].pc = "open"
  /\ LET r == Log(procs[p], "createWritable", "", FALSE)
     IN IF IsFile(tree, r.fh)
          THEN Set(p, [r EXCEPT !.pc = "write", !.stream = "open",
                                !.buf = SwapBuffer(tree, r.fh)])
          ELSE Set(p, Fail(r, "NotFoundError"))
  /\ UNCHANGED <<heap, regs, globalThis, bufferModule, supported, rootDirectory, getDirCalls, tree, lastClose>>

\* the sources Buffer can turn out to be bound to when a step uses it
Bound(uses) ==
  IF uses /\ bufferModule = "" THEN BufferModules ELSE {bufferModule}

\* a writeFile that writes every string as it is
ViaBufferNever(r) == FALSE

\* typeof data === 'string' && encoding === 'base64'
ViaBuffer(r) == r.dtype = "string" /\ r.enc = "base64"

\* what is handed to writable.write: Buffer.from(data, 'base64') for a
\* string with the base64 encoding, else the data itself, of which the
\* backend writes the bytes, a string's being its UTF-8
WriteData(r, module) ==
  IF ViaBuffer(r) THEN BufferFrom(module, r.data, "base64")
  ELSE IF r.dtype = "Uint8Array" THEN [err |-> "", bytes |-> r.data]
  ELSE [err |-> "", bytes |-> Utf8Encode(r.data)]

\* writable.write(...): into the stream's own buffer; a Buffer.from that
\* throws takes control to the catch before anything is written
WriteStep(p) ==
  /\ procs[p].pc = "write"
  /\ \E m \in Bound(ViaBuffer(procs[p])) :
       LET w == WriteData(procs[p], m)
       IN /\ bufferModule' = m
          /\ IF w.err # ""
               THEN Set(p, Fail(procs[p], w.err))
               ELSE Set(p, [Log(procs[p], "write", "", FALSE)
                              EXCEPT !.pc = "close",
                                     !.buf = Overwrite(@, w.bytes)])
  /\ UNCHANGED <<heap, regs, globalThis, supported, rootDirectory, getDirCalls, tree, lastClose>>

\* a writeFile that returns without closing its stream
CloseStepSkipped(p) ==
  /\ procs[p].pc = "close"
  /\ lastClose' = [l \in DOMAIN lastClose \cup {procs[p].fh} |->
                     IF l = procs[p].fh THEN p ELSE lastClose[l]]
  /\ Set(p, Succeed(procs[p]))
  /\ UNCHANGED <<heap, regs, globalThis, bufferModule, supported, rootDirectory, getDirCalls, tree>>

\* writable.close(): the buffer becomes the file's content
CloseStep(p) ==
  /\ procs[p].pc = "close"
  /\ tree' = AddFile(tree, procs[p].fh, procs[p].buf)
  /\ lastClose' = [l \in DOMAIN lastClose \cup {procs[p].fh} |->
                     IF l = procs[p].fh THEN p ELSE lastClose[l]]
  /\ Set(p, Succeed([Log(procs[p], "close", "", FALSE) EXCEPT !.stream = "closed"]))
  /\ UNCHANGED <<heap, regs, globalThis, bufferModule, supported, rootDirectory, getDirCalls>>

\* fileHandle.getFile(): a snapshot of the content
GetFileStep(p) ==
  /\ procs[p].pc = "getFile"
  /\ LET r == Log(procs[p], "getFile", "", FALSE)
     IN IF IsFile(tree, r.fh)
          THEN Set(p, [r EXCEPT !.pc = "text", !.buf = tree.files[r.fh]])
          ELSE Set(p, Fail(r, "NotFoundError"))
  /\ UNCHANGED <<heap, regs, globalThis, bufferModule, supported, rootDirectory, getDirCalls, tree, lastClose>>

\* a readFile that returns text only for the encoding 'utf8'
AsTextStrict(encoding) == encoding = "utf8"

\* encoding === 'utf8' || encoding === 'utf-8'
AsText(encoding) == encoding \in {"utf8", "utf-8"}

\* file.text() for the UTF-8 encodings; else file.arrayBuffer(), handed
\* to Buffer.from, whose toString('base64') is returned for base64 and
\* which is returned itself for any other encoding
TextStep(p) ==
  /\ procs[p].pc = "text"
  /\ \E m \in Bound(~AsText(procs[p].enc)) :
       LET r == procs[p]
           s == BufferToString(m, r.buf, "base64")
       IN /\ bufferModule' = m
          /\ IF AsText(r.enc)
               THEN Set(p, [Succeed(Log(r, "text", "", FALSE))
                              EXCEPT !.text = TextDecode(r.buf)])
               ELSE IF r.enc = "base64"
                 THEN IF s.err # ""
                        THEN Set(p, Fail(Log(r, "arrayBuffer", "", FALSE), s.err))
                        ELSE Set(p, [Succeed(Log(r, "arrayBuffer", "", FALSE))
                                       EXCEPT !.text = s.text])
               ELSE Set(p, [Succeed(Log(r, "arrayBuffer", "", FALSE))
                              EXCEPT !.text = r.buf])
  /\ UNCHANGED <<heap, regs, globalThis, supported, rootDirectory, getDirCalls, tree, lastClose>>

\* for await (const entry of directory.values())
ListStep(p) ==
  /\ procs[p].pc = "list"
  /\ LET r == Log(procs[p], "values", "", FALSE)
     IN IF IsDir(tree, r.cur)
          THEN Set(p, [Succeed(r) EXCEPT !.names = Children(tree, r.cur)])
          ELSE Set(p, Fail(r, "NotFoundError"))
  /\ UNCHANGED <<heap, regs, globalThis, bufferModule, supported, rootDirectory, getDirCalls, tree, lastClose>>

\* navigator.storage.getDirectory() rejects: the root stays unset
InitReject(p) ==
  /\ procs[p].pc = "init"
  /\ getDirCalls <= MaxRejects
  /\ Set(p, Fail([procs[p] EXCEPT !.tok = 0], "SecurityError"))
  /\ UNCHANGED <<heap, regs, globalThis, bufferModule, supported, rootDirectory, getDirCalls, tree, lastClose>>

\* writable.write(data) rejects: control goes to the catch, and neither
\* close() nor abort() is called on the stream
WriteReject(p) ==
  /\ procs[p].pc = "write"
  /\ Set(p, Fail(Log(procs[p], "write", "", FALSE), "QuotaExceededError"))
  /\ UNCHANGED <<heap, regs, globalThis, bufferModule, supported, rootDirectory, getDirCalls, tree, lastClose>>

\* the values handed to the caller
Undefined ==
  [k |-> "undefined", msg |-> "", text |-> <<>>, flag |-> FALSE, names |-> {},
   num |-> 0]
Null == [Undefined EXCEPT !.k = "null"]
ErrorOf(m) == [Undefined EXCEPT !.k = "error", !.msg = m]
TextOf(t) == [Undefined EXCEPT !.k = "string", !.text = t]
BoolOf(b) == [Undefined EXCEPT !.k = "boolean", !.flag = b]
ListOf(ns) == [Undefined EXCEPT !.k = "array", !.names = ns]
BytesOf(b) == [Undefined EXCEPT !.k = "Uint8Array", !.text = b]
NumberOf(n) == [Undefined EXCEPT !.k = "number", !.num = n]

\* an asynchronous function that returns nothing
ResultOfNothing(r) == Undefined

\* what the asynchronous function of the operation returns
ResultOf(r) ==
  CASE r.op = "readFile" ->
         IF AsText(r.enc) \/ r.enc = "base64" THEN TextOf(r.text) ELSE BytesOf(r.text)
    [] r.op = "exists" -> BoolOf(r.flag)
    [] r.op = "readdir" -> ListOf(r.names)
    [] r.op = "isOPFSSupported" -> BoolOf(r.flag)
    [] r.op = "constants" ->
         IF r.key \in DOMAIN constants THEN NumberOf(constants[r.key]) ELSE Undefined
    [] OTHER -> Undefined

\* a callback that is handed the result first
CallbackArgsResultFirst(r) ==
  IF r.ok = "yes" THEN <<ResultOf(r), Null>> ELSE <<ErrorOf(r.msg)>>

\* a callback that is handed the error alone
CallbackArgsErrorOnly(r) ==
  IF r.op = "exists" THEN <<BoolOf(r.flag)>>
  ELSE IF r.ok = "yes" THEN <<Null, ResultOf(r)>> ELSE <<ErrorOf(r.msg)>>

\* an operation run from its call to its outcome on a tree nothing else
\* touches, whatever the calling convention: whether it succeeds, the value
\* its asynchronous function returns, the tree it leaves and the backend
\* requests it issues, in order
SeqRun(t, root, sup, op, path, data) ==
  LET first == IF RootUnset(root) THEN <<<<"getDirectory", "", FALSE>>>> ELSE <<>>
      w == WalkLog(t, Root,
                   IF op \in FileOps THEN ParentParts(path) ELSE DirParts(path),
                   op # "readdir")
      name == FileNameOf(path)
      loc == Append(w.loc, name)
      upTo == first \o w.calls
      No(tr, cs) ==
        [ok |-> op = "exists", val |-> IF op = "exists" THEN BoolOf(FALSE) ELSE Undefined,
         tree |-> tr, calls |-> cs]
      Yes(v, tr, cs) == [ok |-> TRUE, val |-> v, tree |-> tr, calls |-> cs]
  IN IF RootUnset(root) /\ ~sup THEN No(t, <<>>)
     ELSE IF w.err # "" THEN No(w.tree, upTo)
     ELSE CASE op = "mkdir" -> Yes(Undefined, w.tree, upTo)
       [] op = "readdir" ->
            Yes(ListOf(Children(w.tree, w.loc)), w.tree,
                upTo \o <<<<"values", "", FALSE>>>>)
       [] op = "unlink" ->
            LET d == RemoveEntry(w.tree, w.loc, name, FALSE)
                cs == upTo \o <<<<"removeEntry", name, FALSE>>>>
            IN IF d.err # "" THEN No(d.tree, cs) ELSE Yes(Undefined, d.tree, cs)
       [] op = "exists" ->
            LET g == GetFileHandle(w.tree, w.loc, name, FALSE)
            IN Yes(BoolOf(g.err = ""), w.tree,
                   upTo \o <<<<"getFileHandle", name, FALSE>>>>)
       [] op = "readFile" ->
            LET g == GetFileHandle(w.tree, w.loc, name, FALSE)
                cs == upTo \o <<<<"getFileHandle", name, FALSE>>>>
            IN IF g.err # "" THEN No(w.tree, cs)
               ELSE Yes(TextOf(TextDecode(w.tree.files[loc])), w.tree,
                        cs \o <<<<"getFile", "", FALSE>>, <<"text", "", FALSE>>>>)
       [] OTHER ->
            LET g == GetFileHandle(w.tree, w.loc, name, TRUE)
                cs == upTo \o <<<<"getFileHandle", name, TRUE>>>>
            IN IF g.err # "" THEN No(g.tree, cs)
               ELSE Yes(Undefined, AddFile(g.tree, loc, Utf8Encode(data)),
                        cs \o <<<<"createWritable", "", FALSE>>,
                                <<"write", "", FALSE>>, <<"close", "", FALSE>>>>)

\* the arguments the callback is invoked with
CallbackArgs(r) ==
  CASE r.op = "exists" -> <<BoolOf(r.flag)>>
    [] r.op = "readFile" ->
         IF r.ok = "yes" THEN <<Null, ResultOf(r)>>
         ELSE <<ErrorOf(r.msg), TextOf(<<>>)>>
    [] r.op = "readdir" ->
         IF r.ok = "yes" THEN <<Null, ResultOf(r)>>
         ELSE <<ErrorOf(r.msg), ListOf({})>>
    [] OTHER -> IF r.ok = "yes" THEN <<Null>> ELSE <<ErrorOf(r.msg)>>

\* the outcome is delivered: the callback is invoked, or the promise the
\* call returned settles
Return(p) ==
  /\ procs[p].pc = "settled"
  /\ Set(p, [procs[p] EXCEPT !.pc = "done",
                             !.got = IF procs[p].cb THEN CallbackArgs(procs[p])
                                     ELSE <<>>,
                             !.invs = IF procs[p].cb THEN <<CallbackArgs(procs[p])>>
                                      ELSE <<>>])
  /\ UNCHANGED <<heap, regs, globalThis, bufferModule, supported, rootDirectory, getDirCalls, tree, lastClose>>

\* what a callback that throws throws
Thrown == ErrorOf("thrown by the callback")

\* .catch((err) => cb(err)), for readFile cb(err, '') and for readdir
\* cb(err, []): the arguments of the invocation the catch handler makes
CatchArgs(op, err) ==
  CASE op = "readFile" -> <<<<err, TextOf(<<>>)>>>>
    [] op = "readdir" -> <<<<err, ListOf({})>>>>
    [] OTHER -> <<<<err>>>>

\* the outcome is delivered to a callback that throws when it is invoked.
\* The callback is invoked in the handler of then(), and catch() is chained
\* on the promise then() returns: what the callback throws on the success
\* outcome rejects that promise and runs the catch handler, which invokes
\* the callback with what it threw. What the callback throws inside the
\* catch handler, or inside the only handler of exists, is handled by
\* nothing. invs lists the invocations in order.
ReturnThrow(p) ==
  /\ procs[p].pc = "settled"
  /\ procs[p].cb
  /\ LET r == procs[p]
         first == CallbackArgs(r)
     IN Set(p, [r EXCEPT !.pc = "done", !.got = first, !.threw = TRUE,
                         !.invs = IF r.op # "exists" /\ r.ok = "yes"
                                    THEN <<first>> \o CatchArgs(r.op, Thrown)
                                    ELSE <<first>>])
  /\ UNCHANGED <<heap, regs, globalThis, bufferModule, supported, rootDirectory, getDirCalls, tree, lastClose>>

\* ------------------------------------------------------------ Buffer API
\* the strings a user hands to Buffer.from: "\u00e9", "A\u3042", "\ufeffA",
\* "QQ==" and "/wCA"
BufTexts ==
  {<<233>>, <<65, 12354>>, <<65279, 65>>, <<81, 81, 61, 61>>, <<47, 119, 67, 65>>}

\* the encoding argument of from, "" for none
FromEncodings == {"", "utf8", "base64"}

\* the encoding argument of toString, "" for none
ToEncodings == {"", "utf8", "base64", "invalid_encoding"}

\* the types of a source of bytes
SourceKinds == {"ArrayBuffer", "Uint8Array", "Array"}

\* the bytes of a source that is an ArrayBuffer or a Uint8Array
SourceValues == {<<72, 105>>, <<255, 0, 128>>}

\* the numbers of a source that is an Array
ArrayValues == {<<72, 105>>, <<300, 0>>}

\* the lists handed to concat
ConcatLists == UNION { [1 .. n -> SourceValues \cup {<<>>}] : n \in 0 .. MaxList }

\* a from that wraps the buffer of a Uint8Array as it does an ArrayBuffer
SharesSourceView(module, kind) == kind \in {"ArrayBuffer", "Uint8Array"}

\* whether from(data) is a view on the source's own ArrayBuffer: both
\* sources hand an ArrayBuffer to the Uint8Array constructor, which makes
\* a view on it, and copy a Uint8Array or an array-like into a new one
SharesSource(module, kind) == kind = "ArrayBuffer"

\* an element stored into a Uint8Array
ToUint8(v) == v % 256

\* new ArrayBuffer(size): zero-filled
Alloc(size) == [i \in 1 .. size |-> 0]

\* list.reduce((acc, buf) => acc + buf.length, 0)
RECURSIVE TotalLength(_)
TotalLength(list) ==
  IF Len(list) = 0 THEN 0 ELSE Len(Head(list)) + TotalLength(Tail(list))

\* result.set(buf, offset)
SetAt(result, buf, offset) ==
  [i \in 1 .. Len(result) |->
     IF i > offset /\ i <= offset + Len(buf) THEN buf[i - offset] ELSE result[i]]

\* the loop of concat
RECURSIVE ConcatFrom(_, _, _)
ConcatFrom(result, list, offset) ==
  IF Len(list) = 0 THEN result
  ELSE ConcatFrom(SetAt(result, Head(list), offset), Tail(list),
                  offset + Len(Head(list)))

\* Buffer.concat(list) of the class
BufferConcat(list) == ConcatFrom(Alloc(TotalLength(list)), list, 0)

\* the class has a static concat, the object has from and alloc only
HasConcat(module) == module = "class"

\* Buffer.from(string, encoding)
BufFromString ==
  /\ \E s \in BufTexts, e \in FromEncodings, m \in Bound(TRUE) :
       LET b == BufferFrom(m, s, e)
       IN /\ bufferModule' = m
          /\ heap' = IF b.err # "" THEN <<>> ELSE <<b.bytes>>
          /\ regs' = [NoRegs EXCEPT !.op = "from", !.kind = "string", !.arg = s,
                                    !.enc = e, !.err = b.err,
                                    !.buf = IF b.err # "" THEN 0 ELSE 1]
  /\ UNCHANGED <<globalThis, supported, rootDirectory, getDirCalls, tree, lastClose, procs>>

\* container.toString(encoding)
BufToString ==
  /\ regs.buf # 0
  /\ \E e \in ToEncodings :
       LET t == BufferToString(bufferModule, heap[regs.buf], e)
       IN regs' = [regs EXCEPT !.op = "toString", !.tenc = e, !.err = t.err,
                               !.text = t.text]
  /\ UNCHANGED <<heap, globalThis, bufferModule, supported, rootDirectory, getDirCalls,
                 tree, lastClose, procs>>

\* Buffer.from(source) of a new ArrayBuffer, Uint8Array or Array
BufFromBytes ==
  /\ \E kind \in SourceKinds, m \in Bound(TRUE) :
     \E v \in (IF kind = "Array" THEN ArrayValues ELSE SourceValues) :
       LET copy == [i \in 1 .. Len(v) |-> ToUint8(v[i])]
       IN /\ bufferModule' = m
          /\ heap' = IF kind = "Array" THEN <<copy>>
                     ELSE IF SharesSource(m, kind) THEN <<v>>
                     ELSE <<v, copy>>
          /\ regs' = [NoRegs EXCEPT !.op = "from", !.kind = kind,
                                    !.src = IF kind = "Array" THEN 0 ELSE 1,
                                    !.vals = IF kind = "Array" THEN v ELSE <<>>,
                                    !.buf = IF kind = "Array" \/ SharesSource(m, kind)
                                              THEN 1 ELSE 2]
  /\ UNCHANGED <<globalThis, supported, rootDirectory, getDirCalls, tree, lastClose, procs>>

\* what the source holds now
SourceNow == IF regs.kind = "Array" THEN regs.vals ELSE heap[regs.src]

\* source[0] = 7, after the container was made from the source
BufSetSource ==
  /\ regs.op = "from" /\ regs.kind \in SourceKinds
  /\ heap' = IF regs.kind = "Array" THEN heap ELSE [heap EXCEPT ![regs.src][1] = 7]
  /\ regs' = [regs EXCEPT !.op = "setSource", !.was = heap[regs.buf],
                          !.vals = IF regs.kind = "Array" THEN [@ EXCEPT ![1] = 7] ELSE @]
  /\ UNCHANGED <<globalThis, bufferModule, supported, rootDirectory, getDirCalls, tree,
                 lastClose, procs>>

\* container[0] = 7, after the container was made from the source
BufSetContainer ==
  /\ regs.op = "from" /\ regs.kind \in SourceKinds
  /\ heap' = [heap EXCEPT ![regs.buf][1] = 7]
  /\ regs' = [regs EXCEPT !.op = "setContainer", !.was = SourceNow]
  /\ UNCHANGED <<globalThis, bufferModule, supported, rootDirectory, getDirCalls, tree,
                 lastClose, procs>>

\* Buffer.concat(list) of new containers: with the object, Buffer.concat
\* is undefined and the call throws a TypeError
BufConcat ==
  /\ \E list \in ConcatLists, m \in Bound(TRUE) :
       /\ bufferModule' = m
       /\ heap' = IF HasConcat(m) THEN list \o <<BufferConcat(list)>> ELSE list
       /\ regs' = [NoRegs EXCEPT !.op = "concat", !.kind = "list",
                                 !.list = [i \in 1 .. Len(list) |-> i],
                                 !.ins = list,
                                 !.err = IF HasConcat(m) THEN "" ELSE "TypeError",
                                 !.buf = IF HasConcat(m) THEN Len(list) + 1 ELSE 0]
  /\ UNCHANGED <<globalThis, supported, rootDirectory, getDirCalls, tree, lastClose, procs>>

\* a user of the exported Buffer
NextBuf ==
  \/ BufFromString
  \/ BufToString
  \/ BufFromBytes
  \/ BufSetSource
  \/ BufSetContainer
  \/ BufConcat

SpecBuf == Init /\ [][NextBuf]_vars

Next ==
  \/ \E p \in Procs : Call(p)
  \/ \E p \in Procs : InitResume(p)
  \/ \E p \in Procs : ResumeResolve(p)
  \/ \E p \in Procs : WalkStep(p)
  \/ \E p \in Procs : LeafStep(p)
  \/ \E p \in Procs : OpenStep(p)
  \/ \E p \in Procs : WriteStep(p)
  \/ \E p \in Procs : CloseStep(p)
  \/ \E p \in Procs : GetFileStep(p)
  \/ \E p \in Procs : TextStep(p)
  \/ \E p \in Procs : ListStep(p)
  \/ \E p \in Procs : Return(p)

Spec == Init /\ [][Next]_vars

\* one caller that awaits every call before it makes the next
NextSeq ==
  \/ CallSeq(1)
  \/ InitResume(1)
  \/ ResumeResolve(1)
  \/ WalkStep(1)
  \/ LeafStep(1)
  \/ OpenStep(1)
  \/ WriteStep(1)
  \/ CloseStep(1)
  \/ GetFileStep(1)
  \/ TextStep(1)
  \/ ListStep(1)
  \/ Return(1)

SpecSeq == Init /\ [][NextSeq]_vars

\* callers that each issue one writeFile, in any interleaving
NextWrite ==
  \/ \E p \in Procs : CallWrite(p)
  \/ \E p \in Procs : InitResume(p)
  \/ \E p \in Procs : ResumeResolve(p)
  \/ \E p \in Procs : WalkStep(p)
  \/ \E p \in Procs : LeafStep(p)
  \/ \E p \in Procs : OpenStep(p)
  \/ \E p \in Procs : WriteStep(p)
  \/ \E p \in Procs : CloseStep(p)
  \/ \E p \in Procs : Return(p)

SpecWrite == Init /\ [][NextWrite]_vars

\* callers that each issue one writeFile into the directory "/d", which
\* does not exist at the start, in any interleaving
NextShare ==
  \/ \E p \in Procs : CallShare(p)
  \/ \E p \in Procs : InitResume(p)
  \/ \E p \in Procs : ResumeResolve(p)
  \/ \E p \in Procs : WalkStep(p)
  \/ \E p \in Procs : LeafStep(p)
  \/ \E p \in Procs : OpenStep(p)
  \/ \E p \in Procs : WriteStep(p)
  \/ \E p \in Procs : CloseStep(p)
  \/ \E p \in Procs : Return(p)

SpecShare == Init /\ [][NextShare]_vars

\* one call on a fresh tree, its path any string of segments
NextResolve ==
  \/ CallResolve(1)
  \/ InitResume(1)
  \/ ResumeResolve(1)
  \/ WalkStep(1)
  \/ LeafStep(1)
  \/ OpenStep(1)
  \/ WriteStep(1)
  \/ CloseStep(1)
  \/ Return(1)

SpecResolve == Init /\ [][NextResolve]_vars

\* one sequential caller on a backend whose getDirectory and write can reject
NextFault ==
  \/ CallOne(1)
  \/ InitResume(1)
  \/ InitReject(1)
  \/ ResumeResolve(1)
  \/ WalkStep(1)
  \/ LeafStep(1)
  \/ OpenStep(1)
  \/ WriteStep(1)
  \/ WriteReject(1)
  \/ CloseStep(1)
  \/ GetFileStep(1)
  \/ TextStep(1)
  \/ ListStep(1)
  \/ Return(1)

SpecFault == Init /\ [][NextFault]_vars

\* one sequential caller that uses both calling conventions
NextConv ==
  \/ CallConv(1)
  \/ InitResume(1)
  \/ ResumeResolve(1)
  \/ WalkStep(1)
  \/ LeafStep(1)
  \/ OpenStep(1)
  \/ WriteStep(1)
  \/ CloseStep(1)
  \/ GetFileStep(1)
  \/ TextStep(1)
  \/ ListStep(1)
  \/ Return(1)

SpecConv == Init /\ [][NextConv]_vars

\* one sequential caller whose callbacks may throw
NextThrow ==
  \/ CallConv(1)
  \/ InitResume(1)
  \/ ResumeResolve(1)
  \/ WalkStep(1)
  \/ LeafStep(1)
  \/ OpenStep(1)
  \/ WriteStep(1)
  \/ CloseStep(1)
  \/ GetFileStep(1)
  \/ TextStep(1)
  \/ ListStep(1)
  \/ Return(1)
  \/ ReturnThrow(1)

SpecThrow == Init /\ [][NextThrow]_vars

\* the synchronous part of one readFile or writeFile call
NextArgs == CallArgs(1)

SpecArgs == Init /\ [][NextArgs]_vars

\* one caller that writes and reads one file under every encoding
NextEnc ==
  \/ CallEnc(1)
  \/ InitResume(1)
  \/ ResumeResolve(1)
  \/ LeafStep(1)
  \/ OpenStep(1)
  \/ WriteStep(1)
  \/ CloseStep(1)
  \/ GetFileStep(1)
  \/ TextStep(1)
  \/ Return(1)

SpecEnc == Init /\ [][NextEnc]_vars

\* one sequential caller of everything the package exports
NextApi ==
  \/ CallOne(1)
  \/ CallSync(1)
  \/ CallProbe(1)
  \/ ReadConstant(1)
  \/ InitResume(1)
  \/ ResumeResolve(1)
  \/ WalkStep(1)
  \/ LeafStep(1)
  \/ OpenStep(1)
  \/ WriteStep(1)
  \/ CloseStep(1)
  \/ GetFileStep(1)
  \/ TextStep(1)
  \/ ListStep(1)
  \/ Return(1)

SpecApi == Init /\ [][NextApi]_vars

TypeOK ==
  /\ rootDirectory \in 0 .. MaxProcs + MaxRejects
  /\ getDirCalls \in 0 .. MaxProcs + MaxRejects
  /\ Root \in tree.dirs

\* ------------------------------------------------------------- the claims
Finished(r) == r.pc \in {"settled", "done"}

\* C1: however the path resolutions that start while the root handle is
\* unset interleave, getDirectory is requested at most once.
C1_SingleGetDirectoryRequest == getDirCalls <= 1

\* C2: once the root handle is not null it is never assigned again.
C2_RootAssignedOnce ==
  [][rootDirectory # 0 => rootDirectory' = rootDirectory]_vars

\* C3: a caller that awaits each call before the next requests getDirectory
\* at most once: never before its first call, never again once the handle
\* is memoized, and every walk starts from the memoized handle.
C3_LazyMemoizedRoot ==
  /\ getDirCalls <= 1
  /\ procs[1].pc = "idle" => getDirCalls = 0 /\ rootDirectory = 0
  /\ rootDirectory # 0 => rootDirectory = 1 /\ getDirCalls = 1
  /\ procs[1].pc \in {"walk", "leaf", "list"} /\ procs[1].cur = Root
       => procs[1].from = rootDirectory /\ procs[1].from = 1

\* a later call walks from the handle an earlier call memoized
C3_Witness ==
  /\ procs[1].prev.ok = "yes"
  /\ procs[1].pc = "walk"
  /\ procs[1].from = 1
  /\ getDirCalls = 1

\* the message each operation fails with when the probe is false
UnsupportedOutcome(op) ==
  CASE op = "readFile" -> "Error reading file: OPFS is not supported in this browser"
    [] op = "writeFile" -> "Error writing file: OPFS is not supported in this browser"
    [] op = "unlink" -> "Error deleting file: OPFS is not supported in this browser"
    [] op = "mkdir" -> "Error creating directory: OPFS is not supported in this browser"
    [] op = "readdir" -> "Error reading directory: OPFS is not supported in this browser"
    [] OTHER -> ""

\* C4: when isOPFSSupported() is false (the root handle is then unset),
\* no call issues a backend request or sets the root; readFile, writeFile,
\* unlink, mkdir and readdir fail with their prefix wrapping 'OPFS is not
\* supported in this browser', and exists yields false.
C4_UnsupportedFails ==
  ~supported =>
    /\ getDirCalls = 0
    /\ rootDirectory = 0
    /\ tree = EmptyTree
    /\ \A p \in Procs :
         /\ procs[p].pc \in {"idle", "settled", "done"}
         /\ Finished(procs[p]) =>
              IF procs[p].op = "exists"
                THEN procs[p].ok = "yes" /\ procs[p].flag = FALSE
                ELSE /\ procs[p].ok = "no"
                     /\ procs[p].msg = UnsupportedOutcome(procs[p].op)

\* an unsupported environment in which a writeFile failed after an exists
C4_Witness ==
  /\ ~supported
  /\ procs[1].pc = "done"
  /\ procs[1].op = "writeFile"
  /\ procs[1].msg = "Error writing file: OPFS is not supported in this browser"
  /\ procs[1].prev.op = "exists"

\* C5: exists(path) is false while no file was written at the path, and
\* true once a writeFile to the path has succeeded.
C5_ExistsAfterWrite ==
  LET r == procs[1] IN
  /\ Finished(r) /\ r.op = "exists" /\ ~IsFile(r.pre, TargetLoc(r.path))
       => r.flag = FALSE
  /\ Finished(r) /\ r.op = "writeFile" /\ r.ok = "yes"
       => IsFile(tree, TargetLoc(r.path)) /\ ExistsNow(tree, r.path)
  /\ Finished(r) /\ r.op = "exists" /\ r.prev.op = "writeFile"
       /\ r.prev.path = r.path /\ r.prev.ok = "yes"
       => r.flag = TRUE

\* exists answered true right after a successful writeFile of a path whose
\* file was absent before that writeFile
C5_Witness ==
  /\ procs[1].pc = "done"
  /\ procs[1].op = "exists"
  /\ procs[1].path = <<"", "d", "a">>
  /\ procs[1].prev.op = "writeFile"
  /\ procs[1].prev.path = procs[1].path
  /\ procs[1].prev.ok = "yes"
  /\ procs[1].flag = TRUE

\* C6: the only call made on the empty tree is a writeFile to a path whose
\* parent directory was never created: it rejects and writes no file.
C6_MissingParentRejects ==
  \A p \in Procs :
    /\ Finished(procs[p])
    /\ procs[p].op = "writeFile"
    /\ ParentParts(procs[p].path) # <<>>
    /\ \A q \in Procs \ {p} : procs[q].pc = "idle"
    /\ supported
    => /\ procs[p].ok = "no"
       /\ ~IsFile(tree, TargetLoc(procs[p].path))

\* a sequential exists or readFile yields what ReadBack computes from the
\* tree the call started on
ReadBackAgrees ==
  LET r == procs[1] IN
  /\ Finished(r) /\ r.op = "exists" /\ supported
       => r.flag = ExistsNow(r.pre, r.path)
  /\ Finished(r) /\ r.op = "readFile" /\ supported
       => [ok |-> r.ok = "yes", text |-> r.text] = ReadBack(r.pre, r.path)

\* every caller has made its writeFile and all of them were delivered
AllWritten == \A p \in Procs : procs[p].pc = "done" /\ procs[p].op = "writeFile"

\* every call succeeded and every path reads back its own content
AllSucceededAndReadBack ==
  \A p \in Procs :
    /\ procs[p].ok = "yes"
    /\ ExistsNow(tree, procs[p].path)
    /\ ReadBack(tree, procs[p].path) = [ok |-> TRUE, text |-> procs[p].data]

IsPrefix(a, b) == Len(a) <= Len(b) /\ SubSeq(b, 1, Len(a)) = a

\* the paths name pairwise distinct entries of the tree, none of which lies
\* on the directory chain of another
IndependentPaths ==
  \A p, q \in Procs :
    p # q => ~IsPrefix(TargetLoc(procs[p].path), TargetLoc(procs[q].path))

C8_LastCloseWins ==
  \A p, q \in Procs :
    /\ p # q
    /\ supported
    /\ Finished(procs[p]) /\ Finished(procs[q])
    /\ procs[p].op = "writeFile" /\ procs[q].op = "writeFile"
    /\ procs[p].path = procs[q].path
    /\ \A o \in Procs \ {p, q} : procs[o].pc = "idle"
    => LET loc == TargetLoc(procs[p].path) IN
       /\ procs[p].ok = "yes" /\ procs[q].ok = "yes"
       /\ IsFile(tree, loc)
       /\ loc \in DOMAIN lastClose
       /\ lastClose[loc] \in {p, q}
       /\ tree.files[loc] = Utf8Encode(procs[lastClose[loc]].data)

\* both calls started before the root was set, wrote different data to
\* "/d/a", and the call made first closed last: its data is the content
C8_Witness ==
  /\ procs[1].pc = "done" /\ procs[2].pc = "done"
  /\ procs[1].path = <<"", "d", "a">> /\ procs[2].path = <<"", "d", "a">>
  /\ procs[1].data = <<233>> /\ procs[2].data = <<65, 12354>>
  /\ getDirCalls >= 2
  /\ <<"d", "a">> \in DOMAIN lastClose
  /\ lastClose[<<"d", "a">>] = 1
  /\ tree.files[<<"d", "a">>] = <<195, 169>>

\* C9: a mkdir that follows a successful mkdir of the same path succeeds
\* and leaves the tree as the first left it, the directory reachable.
C9_MkdirIdempotent ==
  LET r == procs[1] IN
  /\ Finished(r)
  /\ r.op = "mkdir"
  /\ r.prev.op = "mkdir" /\ r.prev.path = r.path /\ r.prev.ok = "yes"
  => /\ r.ok = "yes"
     /\ tree = r.pre
     /\ IsDir(tree, DirLoc(r.path))

\* the second mkdir('/d/a') was delivered
C9_Witness ==
  /\ procs[1].pc = "done"
  /\ procs[1].op = "mkdir"
  /\ procs[1].path = <<"", "d", "a">>
  /\ procs[1].prev.op = "mkdir"
  /\ procs[1].prev.path = procs[1].path
  /\ procs[1].prev.ok = "yes"
  /\ procs[1].ok = "yes"

\* the prefixes of the non-empty segments of a path
Prefixes(path) ==
  { SubSeq(DirParts(path), 1, k) : k \in 1 .. Len(DirParts(path)) }

\* C10: whatever options.recursive was, a mkdir whose path no file
\* obstructs succeeds, creating the missing segments, and after a
\* successful mkdir every prefix of the path's non-empty segments is a
\* directory.
C10_MkdirCreatesEverySegment ==
  LET r == procs[1] IN
  /\ Finished(r) /\ r.op = "mkdir" /\ r.ok = "yes"
       => \A l \in Prefixes(r.path) : IsDir(tree, l)
  /\ Finished(r) /\ r.op = "mkdir" /\ supported
       /\ (\A l \in Prefixes(r.path) : ~IsFile(r.pre, l))
       => r.ok = "yes"

\* mkdir('/d/a', { recursive: false }) succeeded where '/d' was missing
C10_Witness ==
  /\ procs[1].pc = "done"
  /\ procs[1].op = "mkdir"
  /\ procs[1].recursive = "false"
  /\ procs[1].path = <<"", "d", "a">>
  /\ ~IsDir(procs[1].pre, <<"d">>)
  /\ procs[1].ok = "yes"
  /\ IsDir(tree, <<"d">>) /\ IsDir(tree, <<"d", "a">>)

\* the non-empty segments of a sequence of segments, in order
RECURSIVE NonEmptySegments(_)
NonEmptySegments(s) ==
  IF s = <<>> THEN <<>>
  ELSE (IF Head(s) = "" THEN <<>> ELSE <<Head(s)>>) \o NonEmptySegments(Tail(s))

\* C11: the resolution of a path depends on the segments before the leaf
\* only through the non-empty ones: the walk visits exactly those names in
\* order, the parent is the directory they lead to and the leaf is the last
\* segment, so empty segments among them ("/a//d") change nothing.
C11_RepeatedSlashesIgnored ==
  LET r == procs[1]
      chain == NonEmptySegments(Front(r.path))
  IN /\ r.pc = "walk" => r.cur \o r.rem = chain
     /\ r.pc = "leaf" => r.cur = chain /\ IsDir(tree, chain)
     /\ r.pc \in {"open", "write", "close"}
          => r.fh = Append(chain, r.path[Len(r.path)])
     /\ Finished(r) /\ r.op = "writeFile" /\ r.ok = "yes"
          => IsFile(tree, Append(chain, r.path[Len(r.path)]))

\* writeFile("/a//d") holds the handle of the file d under /a
C11_Witness ==
  /\ procs[1].pc = "open"
  /\ procs[1].path = <<"", "a", "", "d">>
  /\ procs[1].fh = <<"a", "d">>
  /\ tree.dirs = {Root, <<"a">>}

\* C12: the leaf is the last non-empty segment of the path and the parent
\* is what the non-empty segments before it lead to, so "/a/d/" resolves as
\* "/a/d" does and a writeFile to it writes the file d under /a.
C12_TrailingSlashLeaf ==
  LET r == procs[1]
      segs == NonEmptySegments(r.path)
  IN /\ r.pc = "leaf" /\ segs # <<>>
          => r.cur = Front(segs) /\ FileNameOf(r.path) = segs[Len(segs)]
     /\ Finished(r) /\ r.op = "writeFile" /\ supported /\ segs # <<>>
          => r.ok = "yes" /\ IsFile(tree, segs)

\* the last backend request a call issued was the lookup of its leaf
LeafLookupLast(r) ==
  /\ r.calls # <<>>
  /\ r.calls[Len(r.calls)] = <<"getFileHandle", FileNameOf(r.path), FALSE>>

\* C13: exists always resolves and never rejects; whatever failed (the
\* capability probe, getDirectory, the directory walk or the leaf lookup)
\* it yields false, and it yields true exactly when the leaf lookup was
\* issued and succeeded.
C13_ExistsNeverRejects ==
  LET r == procs[1] IN
  Finished(r) /\ r.op = "exists" =>
    /\ r.ok = "yes" /\ r.msg = "" /\ r.ret = "promise"
    /\ r.cause # "" => r.flag = FALSE
    /\ r.flag = TRUE <=> r.cause = "" /\ LeafLookupLast(r)
    /\ r.flag = TRUE => IsFile(r.pre, TargetLoc(r.path))

\* exists('/d/a') answered false because '/d' is a file
C13_Witness ==
  /\ procs[1].pc = "done"
  /\ procs[1].op = "exists"
  /\ procs[1].path = <<"", "d", "a">>
  /\ IsFile(tree, <<"d">>)
  /\ procs[1].cause = "TypeMismatchError"
  /\ procs[1].ok = "yes"
  /\ procs[1].flag = FALSE

\* the messages of the failures the backend and the resolver produce
Causes ==
  {"OPFS is not supported in this browser",
   "Failed to initialize OPFS root directory",
   "SecurityError", "TypeError", "NotFoundError", "TypeMismatchError",
   "InvalidModificationError", "NoModificationAllowedError",
   "QuotaExceededError"}

\* the message an operation's rejection carries for a cause
WrappedMessage(op, cause) ==
  CASE op = "readFile" -> "Error reading file: " \o cause
    [] op = "writeFile" -> "Error writing file: " \o cause
    [] op = "unlink" -> "Error deleting file: " \o cause
    [] op = "mkdir" -> "Error creating directory: " \o cause
    [] op = "readdir" -> "Error reading directory: " \o cause
    [] OTHER -> cause

\* C14: readFile, writeFile, unlink, mkdir and readdir called without a
\* callback return a deferred result that rejects exactly when something
\* failed (the probe, getDirectory, the walk or a backend call), with the
\* operation's prefix followed by the cause's own message, wrapped once.
C14_FailureWrappedOnce ==
  LET r == procs[1] IN
  Finished(r) /\ r.op \in Ops \ {"exists"} =>
    /\ r.ret = "promise"
    /\ r.cause # "" => r.ok = "no" /\ r.msg = WrappedMessage(r.op, r.cause)
    /\ r.ok = "no" => r.cause \in Causes
    /\ r.cause = "" => r.ok = "yes" /\ r.msg = ""

\* a writeFile whose write was rejected by the backend, delivered
C14_Witness ==
  /\ procs[1].pc = "done"
  /\ procs[1].op = "writeFile"
  /\ procs[1].cause = "QuotaExceededError"
  /\ procs[1].msg = "Error writing file: QuotaExceededError"
  /\ procs[1].ok = "no"

\* C19: when the outcome of a writeFile is delivered, the writable stream
\* it opened, if any, has been closed, whether the write succeeded or
\* failed, and close was requested after write.
C19_StreamClosedBeforeOutcome ==
  LET r == procs[1] IN
  r.pc = "done" /\ r.op = "writeFile" /\ r.stream # "none" =>
    /\ r.stream = "closed"
    /\ Len(r.calls) >= 2
    /\ r.calls[Len(r.calls) - 1][1] = "write"
    /\ r.calls[Len(r.calls)][1] = "close"

\* C15: a call that was given a callback returns undefined, and a failure
\* of the operation reaches the callback, when the outcome is delivered, as
\* an Error with the wrapped message in the first argument, followed by ''
\* for readFile, [] for readdir and nothing for writeFile, unlink, mkdir.
C15_CallbackFailure ==
  LET r == procs[1] IN
  /\ r.pc # "idle" /\ r.cb => r.ret = "undefined"
  /\ r.pc # "done" => r.got = <<>>
  /\ r.pc = "done" /\ r.cb /\ r.op # "exists" /\ r.cause # "" =>
       /\ r.got # <<>>
       /\ r.got[1] = ErrorOf(WrappedMessage(r.op, r.cause))
       /\ r.op = "readFile" => Len(r.got) = 2 /\ r.got[2] = TextOf(<<>>)
       /\ r.op = "readdir" => Len(r.got) = 2 /\ r.got[2] = ListOf({})
       /\ r.op \in {"writeFile", "unlink", "mkdir"} => Len(r.got) = 1

\* readdir('/d', cb) on a tree without '/d': cb(Error, [])
C15_Witness ==
  /\ procs[1].pc = "done"
  /\ procs[1].op = "readdir"
  /\ procs[1].a1 = Fn
  /\ procs[1].ret = "undefined"
  /\ procs[1].got = <<ErrorOf("Error reading directory: NotFoundError"), ListOf({})>>

\* the second argument a callback was invoked with
SecondArg(got) == IF Len(got) >= 2 THEN got[2] ELSE Undefined

\* C16 as stated: whenever an operation given a callback succeeds (exists
\* included), the callback is invoked with null first and the result second.
C16_CallbackNullThenResult ==
  LET r == procs[1] IN
  r.pc = "done" /\ r.cb /\ r.ok = "yes" =>
    /\ r.got # <<>>
    /\ r.got[1] = Null
    /\ SecondArg(r.got) = ResultOf(r)

\* C16 amended: when readFile, writeFile, unlink, mkdir or readdir given a
\* callback succeeds, the callback is invoked with null first and the
\* result second (nothing for the three without a result); the callback of
\* exists is invoked with the boolean as its only argument.
C16_CallbackSuccess ==
  LET r == procs[1] IN
  /\ r.pc = "done" /\ r.cb /\ r.ok = "yes" /\ r.op # "exists" =>
       /\ r.got # <<>>
       /\ r.got[1] = Null
       /\ SecondArg(r.got) = ResultOf(r)
       /\ r.op = "readFile" => r.got[2].k = "string"
       /\ r.op = "readdir" => r.got[2].k = "array"
       /\ r.op \in {"writeFile", "unlink", "mkdir"} => Len(r.got) = 1
  /\ r.pc = "done" /\ r.cb /\ r.op = "exists" =>
       r.got = <<BoolOf(r.flag)>>

\* readFile('/d/a', cb) of a file that holds "é": cb(null, "é")
C16_Witness ==
  /\ procs[1].pc = "done"
  /\ procs[1].op = "readFile"
  /\ procs[1].cb
  /\ procs[1].path = <<"", "d", "a">>
  /\ procs[1].got = <<Null, TextOf(<<233>>)>>

\* what SeqRun tells of the call a caller made
Expected(r) == SeqRun(r.pre, r.preRoot, supported, r.op, r.path, r.data)

\* a finished call, in either form, issued the requests, left the tree and
\* computed the value that SeqRun tells for its operation and arguments
SameRun(r) ==
  /\ tree = Expected(r).tree
  /\ r.calls = Expected(r).calls
  /\ (r.ok = "yes") = Expected(r).ok
  /\ r.ok = "yes" => ResultOf(r) = Expected(r).val

\* C17 as stated: both forms issue the same requests and leave the same
\* tree, and the value v the deferred form resolves with is what the
\* callback form hands to the callback as its second argument.
C17_CallbackSecondArgument ==
  LET r == procs[1] IN
  /\ Finished(r) => SameRun(r)
  /\ r.pc = "done" /\ r.cb /\ r.ok = "yes" => SecondArg(r.got) = Expected(r).val

\* C17 amended: both forms issue the same requests and leave the same
\* tree, and the value v the deferred form resolves with is what the
\* callback form hands to the callback, as its second argument for
\* readFile, writeFile, unlink, mkdir and readdir, as its only argument
\* for exists.
C17_ConventionsEquivalent ==
  LET r == procs[1] IN
  /\ Finished(r) => SameRun(r)
  /\ r.pc = "done" /\ r.cb /\ r.ok = "yes" /\ r.op # "exists"
       => SecondArg(r.got) = Expected(r).val
  /\ r.pc = "done" /\ r.cb /\ r.op = "exists" => r.got = <<Expected(r).val>>

\* readdir('/d', cb) listed the one entry of '/d'
C17_Witness ==
  /\ procs[1].pc = "done"
  /\ procs[1].op = "readdir"
  /\ procs[1].cb
  /\ procs[1].path = <<"", "d">>
  /\ procs[1].calls = <<<<"getDirectoryHandle", "d", FALSE>>, <<"values", "", FALSE>>>>
  /\ procs[1].got = <<Null, ListOf({"a"})>>

\* C18: readFile and writeFile read their trailing arguments so: a function
\* first is the callback and the encoding is 'utf8'; a string first is the
\* encoding and the next argument the callback; an options record first
\* gives its encoding field, 'utf8' when it has none, and the next argument
\* is the callback; with nothing first the encoding is 'utf8' and the next
\* argument, if any, is the callback.
C18_ArgumentNormalization ==
  LET r == procs[1] IN
  r.pc # "idle" /\ r.op \in {"readFile", "writeFile"} =>
    /\ r.a1.k = "function" => r.cb /\ r.enc = "utf8"
    /\ r.a1.k = "string" => r.enc = r.a1.enc /\ (r.cb <=> r.a2.k = "function")
    /\ r.a1.k = "object" /\ r.a1.enc # ""
         => r.enc = r.a1.enc /\ (r.cb <=> r.a2.k = "function")
    /\ r.a1.k = "object" /\ r.a1.enc = ""
         => r.enc = "utf8" /\ (r.cb <=> r.a2.k = "function")
    /\ r.a1.k = "absent" => r.enc = "utf8" /\ (r.cb <=> r.a2.k = "function")
    /\ r.ret = IF r.cb THEN "undefined" ELSE "promise"

\* writeFile(path, data, { encoding: 'base64' }, cb)
C18_Witness ==
  /\ procs[1].pc # "idle"
  /\ procs[1].op = "writeFile"
  /\ procs[1].a1 = Obj("base64")
  /\ procs[1].a2 = Fn
  /\ procs[1].enc = "base64"
  /\ procs[1].cb
  /\ procs[1].ret = "undefined"

\* C20: a readFile(p, 'utf8') that follows a successful writeFile(p, s)
\* yields exactly s, and a successful writeFile(p, s) leaves the bytes of s
\* and nothing else as the content of p, whatever p held before.
C20_WriteThenReadRoundTrip ==
  LET r == procs[1] IN
  /\ Finished(r) /\ r.op = "readFile" /\ r.enc = "utf8"
       /\ r.prev.op = "writeFile" /\ r.prev.path = r.path /\ r.prev.ok = "yes"
       /\ r.prev.dtype = "string" /\ r.prev.enc # "base64"
       => r.ok = "yes" /\ r.text = r.prev.data
  /\ Finished(r) /\ r.op = "writeFile" /\ r.ok = "yes"
       /\ r.dtype = "string" /\ r.enc # "base64"
       => /\ IsFile(tree, TargetLoc(r.path))
          /\ Len(tree.files[TargetLoc(r.path)]) = Len(Utf8Encode(r.data))
          /\ ReadBack(tree, r.path) = [ok |-> TRUE, text |-> r.data]

\* readFile('/d/a') returned "é" right after writeFile('/d/a', "é")
C20_Witness ==
  /\ procs[1].pc = "done"
  /\ procs[1].op = "readFile"
  /\ procs[1].path = <<"", "d", "a">>
  /\ procs[1].prev.op = "writeFile"
  /\ procs[1].prev.path = procs[1].path
  /\ procs[1].prev.data = <<233>>
  /\ procs[1].text = <<233>>
  /\ tree.files[<<"d", "a">>] = <<195, 169>>

\* C21: a readFile(p) without an encoding argument that follows a
\* successful writeFile(p, bytes) of a byte array returns a byte array of
\* the same length that holds the same byte at every offset.
C21_BinaryFidelity ==
  LET r == procs[1] IN
  Finished(r) /\ r.op = "readFile" /\ r.a1 = Absent
    /\ r.prev.op = "writeFile" /\ r.prev.dtype = "Uint8Array"
    /\ r.prev.path = r.path /\ r.prev.ok = "yes"
    => r.ok = "yes" /\ ResultOf(r) = BytesOf(r.prev.data)

\* C22: a readFile of an existing file succeeds with a result whose type
\* the encoding alone decides: the UTF-8 text of the bytes for 'utf8' and
\* 'utf-8', their Base64 text for 'base64', the bytes themselves for any
\* other encoding.
C22_ResultTypeByEncoding ==
  LET r == procs[1]
      loc == TargetLoc(r.path)
  IN Finished(r) /\ r.op = "readFile" /\ IsFile(r.pre, loc)
       => /\ r.ok = "yes"
          /\ ResultOf(r) =
               IF r.enc \in {"utf8", "utf-8"} THEN TextOf(TextDecode(r.pre.files[loc]))
               ELSE IF r.enc = "base64" THEN TextOf(Btoa(r.pre.files[loc]))
               ELSE BytesOf(r.pre.files[loc])

\* a text is valid Base64 when it decodes and encoding its bytes gives it back
ValidBase64(s) == Atob(s).err = "" /\ Btoa(Atob(s).bytes) = s

\* C23: a successful writeFile leaves as the file's content the bytes that
\* a string of valid Base64 text with the encoding 'base64' encodes, the
\* bytes of a byte array whatever the encoding, and the UTF-8 bytes of a
\* string with any other encoding; and a
\* readFile(p, 'base64') that follows a writeFile(p, b, 'base64') of valid
\* Base64 text b returns b.
C23_WriteByTypeAndEncoding ==
  LET r == procs[1]
      loc == TargetLoc(r.path)
  IN /\ Finished(r) /\ r.op = "writeFile" /\ r.ok = "yes"
          => /\ IsFile(tree, loc)
             /\ tree.files[loc] =
                  IF r.dtype = "Uint8Array" THEN r.data
                  ELSE IF r.enc # "base64" THEN Utf8Encode(r.data)
                  ELSE IF ValidBase64(r.data) THEN Atob(r.data).bytes
                  ELSE tree.files[loc]
     /\ Finished(r) /\ r.op = "readFile" /\ r.enc = "base64"
          /\ r.prev.op = "writeFile" /\ r.prev.path = r.path
          /\ r.prev.dtype = "string" /\ r.prev.enc = "base64"
          /\ ValidBase64(r.prev.data) /\ r.prev.ok = "yes"
          => r.ok = "yes" /\ ResultOf(r) = TextOf(r.prev.data)

\* C24: every step in which a synchronous variant is called ends the call
\* at once with a thrown error whose message names the asynchronous
\* variant to use, issues no backend request and leaves the root handle,
\* the tree and every other part of the state as they were.
C24_SyncVariantsThrow ==
  [][procs'[1] # procs[1] /\ procs'[1].op \in SyncOps
       => /\ procs'[1].pc = "done"
          /\ procs'[1].ret = "throw"
          /\ procs'[1].ok = "no"
          /\ \E a \in Ops :
               /\ procs'[1].op = a \o "Sync"
               /\ procs'[1].msg =
                    procs'[1].op \o " is not supported in browser environment. Use "
                      \o a \o "() instead."
          /\ procs'[1].calls = <<>>
          /\ UNCHANGED <<heap, regs, globalThis, bufferModule, supported, rootDirectory,
                         getDirCalls, tree, lastClose>>]_vars

\* existsSync('/a') threw while the root handle was set and '/a' was a file
C24_Witness ==
  /\ procs[1].pc = "done"
  /\ procs[1].op = "existsSync"
  /\ procs[1].path = <<"", "a">>
  /\ procs[1].ret = "throw"
  /\ rootDirectory # 0
  /\ IsFile(tree, <<"a">>)

\* the entries of a tree, directories and files
Entries(t) == t.dirs \cup DOMAIN t.files

\* C25: a readdir of a directory that exists succeeds with exactly the
\* names of the entries one level below it: every immediate child, file or
\* directory, and no name that only a deeper descendant bears.
C25_ReaddirImmediateChildren ==
  LET r == procs[1]
      d == DirLoc(r.path)
  IN Finished(r) /\ r.op = "readdir" /\ supported /\ IsDir(r.pre, d)
       => /\ r.ok = "yes"
          /\ r.names = { e[Len(e)] : e \in { x \in Entries(r.pre) :
                           Len(x) = Len(d) + 1 /\ SubSeq(x, 1, Len(d)) = d } }

\* readdir('/') returned only "d" while '/d/a' existed
C25_Witness ==
  /\ procs[1].pc = "done"
  /\ procs[1].op = "readdir"
  /\ procs[1].path = <<"", "">>
  /\ procs[1].names = {"d"}
  /\ <<"d", "a">> \in Entries(tree)

\* some directory on the way to loc, loc included, is not in the tree
MissingSegment(t, loc) ==
  \E i \in 1 .. Len(loc) : SubSeq(loc, 1, i) \notin Entries(t)

\* C26: a readdir whose path has a segment that is absent fails with a
\* message that starts with 'Error reading directory: ', and the tree after
\* it is the tree before it: nothing is created, the segments before the
\* missing one included.
C26_ReaddirCreatesNothing ==
  LET r == procs[1] IN
  Finished(r) /\ r.op = "readdir" /\ MissingSegment(r.pre, DirLoc(r.path))
    => /\ r.ok = "no"
       /\ \E c \in Causes : r.msg = "Error reading directory: " \o c
       /\ tree = r.pre

\* readdir('/d/a') failed while neither '/d' nor '/d/a' existed, and '/d'
\* still does not exist
C26_Witness ==
  /\ procs[1].pc = "done"
  /\ procs[1].op = "readdir"
  /\ procs[1].path = <<"", "d", "a">>
  /\ procs[1].ok = "no"
  /\ procs[1].msg = "Error reading directory: NotFoundError"
  /\ rootDirectory # 0
  /\ <<"d">> \notin Entries(procs[1].pre)
  /\ <<"d">> \notin Entries(tree)

\* C27: an unlink whose path has an intermediate directory that is absent
\* fails with a message that starts with 'Error deleting file: ', and the
\* tree after it is the tree before it.
C27_UnlinkCreatesNothing ==
  LET r == procs[1] IN
  Finished(r) /\ r.op = "unlink" /\ MissingSegment(r.pre, ParentParts(r.path))
    => /\ r.ok = "no"
       /\ \E c \in Causes : r.msg = "Error deleting file: " \o c
       /\ tree = r.pre

\* C28: a successful unlink removes the entry its path names and nothing
\* else: every other directory and every other file, content included, is
\* as before; the exists(path) that follows yields false and the
\* readFile(path) that follows fails; and an unlink of a path that names no
\* entry fails with a message that starts with 'Error deleting file: '.
C28_UnlinkRemovesExactlyTheEntry ==
  LET r == procs[1]
      loc == TargetLoc(r.path)
  IN /\ Finished(r) /\ r.op = "unlink" /\ r.ok = "yes"
          => /\ loc \in Entries(r.pre)
             /\ loc \notin Entries(tree)
             /\ tree.dirs = r.pre.dirs \ {loc}
             /\ DOMAIN tree.files = DOMAIN r.pre.files \ {loc}
             /\ \A f \in DOMAIN tree.files : tree.files[f] = r.pre.files[f]
     /\ Finished(r) /\ r.op = "exists"
          /\ r.prev.op = "unlink" /\ r.prev.path = r.path /\ r.prev.ok = "yes"
          => r.flag = FALSE
     /\ Finished(r) /\ r.op = "readFile"
          /\ r.prev.op = "unlink" /\ r.prev.path = r.path /\ r.prev.ok = "yes"
          => r.ok = "no"
     /\ Finished(r) /\ r.op = "unlink" /\ loc \notin Entries(r.pre)
          => /\ r.ok = "no"
             /\ \E c \in Causes : r.msg = "Error deleting file: " \o c

\* exists('/d/a') yielded false right after a successful unlink('/d/a'),
\* with '/d' and the file '/a' still there
C28_Witness ==
  /\ procs[1].pc = "done"
  /\ procs[1].op = "exists"
  /\ procs[1].path = <<"", "d", "a">>
  /\ procs[1].flag = FALSE
  /\ procs[1].prev.op = "unlink"
  /\ procs[1].prev.path = procs[1].path
  /\ procs[1].prev.ok = "yes"
  /\ IsDir(tree, <<"d">>)
  /\ IsFile(tree, <<"a">>)

\* the table the package is to export
ExpectedConstants ==
  [F_OK |-> 0, R_OK |-> 4, W_OK |-> 2, X_OK |-> 1, O_RDONLY |-> 0,
   O_WRONLY |-> 1, O_RDWR |-> 2, O_CREAT |-> 64, O_EXCL |-> 128,
   O_TRUNC |-> 512, O_APPEND |-> 1024]

\* C29: reading any of F_OK, R_OK, W_OK, X_OK, O_RDONLY, O_WRONLY, O_RDWR,
\* O_CREAT, O_EXCL, O_TRUNC and O_APPEND from the exported constants table
\* yields the number 0, 4, 2, 1, 0, 1, 2, 64, 128, 512 and 1024
\* respectively, and the read changes nothing.
C29_ConstantsTable ==
  LET r == procs[1] IN
  r.op = "constants"
    => /\ r.key \in DOMAIN ExpectedConstants
       /\ ResultOf(r) = NumberOf(ExpectedConstants[r.key])
       /\ tree = r.pre /\ rootDirectory = r.preRoot

C31_Utf8RoundTrip ==
  regs.op = "toString" /\ regs.kind = "string"
    /\ regs.enc \in {"", "utf8"} /\ regs.tenc \in {"", "utf8"}
    => regs.err = "" /\ regs.text = regs.arg

\* C32: for valid Base64 text b, Buffer.from(b, 'base64') holds the bytes b
\* encodes, and its toString('base64') returns b.
C32_Base64RoundTrip ==
  regs.kind = "string" /\ regs.enc = "base64" /\ ValidBase64(regs.arg)
    => /\ regs.buf # 0
       /\ heap[regs.buf] = Atob(regs.arg).bytes
       /\ regs.op = "toString" /\ regs.tenc = "base64"
            => regs.err = "" /\ regs.text = regs.arg

\* C33: toString with an encoding other than 'base64', a name that is no
\* encoding included, does not throw and returns the UTF-8 decoding of the
\* container's bytes.
C33_DecodeNeverFails ==
  regs.op = "toString" /\ regs.tenc # "base64"
    => regs.err = "" /\ regs.text = TextDecode(heap[regs.buf])

\* the container holds the source's elements, each as a byte
HoldsSource ==
  /\ Len(heap[regs.buf]) = Len(SourceNow)
  /\ \A i \in 1 .. Len(SourceNow) : heap[regs.buf][i] = ToUint8(SourceNow[i])

\* C34 as stated: a container made from an ArrayBuffer, a Uint8Array or an
\* array-like has the source's length and bytes and owns its bytes: a
\* later change to the source does not change the container and a change
\* to the container does not change the source.
C34_FromBytesOwnsItsBytes ==
  regs.kind \in SourceKinds
    => /\ regs.op = "from" => HoldsSource /\ regs.buf # regs.src
       /\ regs.op = "setSource" => heap[regs.buf] = regs.was
       /\ regs.op = "setContainer" => SourceNow = regs.was

\* C34: a container made from a Uint8Array or an array-like of numbers has
\* the source's length and holds each element modulo 256 in bytes of its
\* own, so that a later change to either leaves the other as it was; a
\* container made from an ArrayBuffer is a view on that ArrayBuffer, so that
\* a later change to either shows in the other.
C34_FromBytesCopiesOrShares ==
  regs.kind \in SourceKinds
    => /\ regs.op = "from" => HoldsSource
       /\ regs.kind # "ArrayBuffer"
            => /\ regs.buf # regs.src
               /\ regs.op = "setSource" => heap[regs.buf] = regs.was
               /\ regs.op = "setContainer" => SourceNow = regs.was
       /\ regs.kind = "ArrayBuffer"
            => /\ regs.buf = regs.src
               /\ regs.op = "setSource" => heap[regs.buf][1] = 7
               /\ regs.op = "setContainer" => SourceNow[1] = 7

\* the first byte of the Uint8Array a container was made from was set to 7,
\* and the container still holds 255, 0, 128
C34_Witness ==
  /\ regs.op = "setSource"
  /\ regs.kind = "Uint8Array"
  /\ heap[regs.src] = <<7, 0, 128>>
  /\ heap[regs.buf] = <<255, 0, 128>>

\* the elements of the sequences of a list, in order
RECURSIVE Flatten(_)
Flatten(list) ==
  IF Len(list) = 0 THEN <<>> ELSE Head(list) \o Flatten(Tail(list))

\* C35: concat of a list of containers returns a container that holds the
\* inputs' bytes in the order of the list, of the length that is the sum of
\* theirs and empty for the empty list, and leaves every input as it was.
C35_ConcatInOrder ==
  regs.op = "concat"
    => /\ regs.err = ""
       /\ regs.buf # 0
       /\ heap[regs.buf] = Flatten(regs.ins)
       /\ Len(heap[regs.buf]) = TotalLength(regs.ins)
       /\ \A i \in 1 .. Len(regs.list) : heap[regs.list[i]] = regs.ins[i]

\* C36: exists reports directories as well as files: an exists(d) that
\* follows a successful mkdir(d) yields true, and exists of a path at which
\* nothing was ever created yields false.
C36_ExistsReportsDirectories ==
  LET r == procs[1] IN
  /\ Finished(r) /\ r.op = "exists"
       /\ r.prev.op = "mkdir" /\ r.prev.path = r.path /\ r.prev.ok = "yes"
       => r.flag = TRUE
  /\ Finished(r) /\ r.op = "exists" /\ TargetLoc(r.path) \notin Entries(r.pre)
       => r.flag = FALSE

\* C37: exists and readFile never modify the backend tree: for every path,
\* those with absent intermediate directories included, the directories,
\* the files and their contents after the call are those before the call.
C37_ReadOnlyOperationsKeepTree ==
  LET r == procs[1] IN
  Finished(r) /\ r.op \in {"exists", "readFile"} =>
    /\ tree.dirs = r.pre.dirs
    /\ tree.files = r.pre.files

\* C38: readFile, writeFile, unlink, mkdir and readdir called with a
\* callback invoke it exactly once per call, with the success or with the
\* failure outcome and never both, also when the callback throws while it
\* handles the success outcome.
C38_CallbackInvokedOnce ==
  LET r == procs[1] IN
  r.pc = "done" /\ r.cb /\ r.op \in Ops \ {"exists"} =>
    /\ Len(r.invs) = 1
    /\ r.invs[1] = CallbackArgs(r)

\* C39: a failed root initialization is not memoized. When the backend's
\* getDirectory request fails the root handle stays unset and the operation
\* fails; every call that starts with the root handle unset, a call after
\* such a failure included, requests getDirectory first, and when that
\* request succeeds the handle is set and the call goes on to its walk.
C39_FailedInitNotMemoized ==
  LET r == procs[1] IN
  /\ Finished(r) /\ r.cause = "SecurityError"
       => /\ rootDirectory = 0
          /\ IF r.op = "exists" THEN r.flag = FALSE ELSE r.ok = "no"
  /\ Finished(r) /\ supported /\ r.preRoot = 0
       => /\ r.calls # <<>>
          /\ r.calls[1] = <<"getDirectory", "", FALSE>>
          /\ r.cause # "Failed to initialize OPFS root directory"
          /\ r.cause # "SecurityError" => rootDirectory = getDirCalls
  /\ rootDirectory = 0 \/ rootDirectory = getDirCalls

\* a writeFile issued after a call whose getDirectory request failed made
\* the second request, got the root handle and wrote its file
C39_Witness ==
  /\ procs[1].pc = "done"
  /\ procs[1].op = "writeFile"
  /\ procs[1].ok = "yes"
  /\ procs[1].preRoot = 0
  /\ getDirCalls = 2
  /\ rootDirectory = 2
  /\ IsFile(tree, TargetLoc(procs[1].path))

====
